---- MODULE Spec2Model ----
(***************************************************************************)
(* State-machine model of the RMCHS SSLG election application: the backend *)
(* tables (voters, candidates, votes, config), the voter-facing screens    *)
(* (Login, FlashScreen, Ballot, success page of App) of a set of browser   *)
(* sessions, and the admin dashboard operations that touch the same        *)
(* tables.  Every await of a handler that talks to the backend is a step   *)
(* of its own: the backend request and the code that runs on its response  *)
(* form one atomic action, and every request may fail.                     *)
(*                                                                         *)
(* Text values that the code transforms (LRN, names, passcodes) are        *)
(* sequences of one-character strings, so that slice, charAt and           *)
(* toUpperCase are computed and not assumed.                               *)
(***************************************************************************)
EXTENDS Integers, Sequences, FiniteSets, TLC

VARIABLES
    voters,     \* table voters: set of rows
    candidates, \* table candidates: set of rows
    votes,      \* table votes: set of rows
    config,     \* table config: function key -> value, a missing key is a missing row
    nextVoterId,\* id the backend gives to the next inserted voter row
    nextBatch,  \* created_at stamp the backend gives to the next votes insert
    batchOwner, \* history: created_at stamp -> id of the voter whose ballot it was
    app,        \* per session, App state: currentScreen, currentVoter, flashMode
    login,      \* per session, Login state: lrn, passcode, error, loading
    ballot,     \* per session, Ballot state: candidates, selections, isConfirming, ...
    call,       \* per session, the submitBallot call in flight and its outcome
    admin,      \* AdminDashboard state: isElectionOpen
    gp,         \* one application of generatePasscode: inputs and result
    dash,       \* AdminDashboard state: mounting, the poll timer, polls in flight, data
    super,      \* SuperAdminDashboard state: the handleWipe in flight and its alert
    twin,       \* table votes of a second run that differs only in who votes
    csv,        \* the CSV file handed to handleFileImport and what it made of it
    settings,   \* admin settings modal and the admin login check
    pager       \* the fetchAllRows call in flight: offset and rows collected

vars == <<voters, candidates, votes, config, nextVoterId, nextBatch, batchOwner,
          app, login, ballot, call, admin, gp, dash, super, twin,
          csv, settings, pager>>

appVars == <<voters, candidates, votes, config, nextVoterId, nextBatch, batchOwner,
             app, login, ballot, call, admin, dash, super, twin,
             csv, settings, pager>>

(***************************************************************************)
(* Bounds of the model.                                                    *)
(***************************************************************************)
\* number of votes inserts (ballot submissions reaching the insert) in a run
MaxBatches == 2
\* number of voter rows ever inserted (the row of Init included)
MaxVoterId == 3
\* fetchData calls in flight at a time
MaxPolls == 2
\* browser sessions open at the same time
Sessions == {"A", "B"}

(***************************************************************************)
(* Text.                                                                   *)
(***************************************************************************)
Lower == <<"a", "b", "c", "d", "j", "m">>
Upper == <<"A", "B", "C", "D", "J", "M">>

\* String.prototype.toUpperCase on one character
toUpperChar(c) ==
    IF \E i \in 1..Len(Lower) : Lower[i] = c
    THEN Upper[CHOOSE i \in 1..Len(Lower) : Lower[i] = c]
    ELSE c

toUpperCase(s) == [i \in 1..Len(s) |-> toUpperChar(s[i])]

\* s.charAt(0): the empty string when s is empty
charAt0(s) == IF Len(s) = 0 THEN <<>> ELSE <<s[1]>>

\* s.slice(-5): the last five characters, all of s when it is shorter
sliceLast5(s) == IF Len(s) <= 5 THEN s ELSE SubSeq(s, Len(s) - 4, Len(s))

generatePasscode_first5(lrn, firstName, lastName) ==
    IF Len(lrn) = 0 \/ Len(lrn) < 5
    THEN <<>>
    ELSE SubSeq(lrn, 1, 5) \o toUpperCase(charAt0(firstName) \o charAt0(lastName))

generatePasscode(lrn, firstName, lastName) ==
    IF Len(lrn) = 0 \/ Len(lrn) < 5
    THEN <<>>
    ELSE sliceLast5(lrn) \o toUpperCase(charAt0(firstName) \o charAt0(lastName))

(***************************************************************************)
(* Program constants and the data the model draws from.                    *)
(***************************************************************************)
POSITIONS_ORDER ==
    <<"President", "Vice President", "Secretary", "Treasurer", "Auditor",
      "PIO", "Protocol Officer", "Grade Level Rep">>

ABSTAIN == "ABSTAIN"
\* SQL NULL in votes.candidate_id
NULL == "NULL"
\* an optional value: <<>> is null/undefined, <<x>> is x
None == <<>>
Some(x) == <<x>>

ADMIN == <<"A", "D", "M", "I", "N">>

\* the people the admin may register: what the voter form or a CSV row holds
People ==
    { [lrn |-> <<"1", "2", "3", "4", "5", "6">>, first_name |-> <<"j", "u">>,
       last_name |-> <<"D", "c">>, grade_level |-> 10],
      [lrn |-> <<"6", "5", "4", "3", "2", "1">>, first_name |-> <<"M", "a">>,
       last_name |-> <<"c", "l">>, grade_level |-> 9] }

\* a voters row as addVoter and bulkImportVoters build it
NewVoter(id, p) ==
    [id |-> id, lrn |-> p.lrn, first_name |-> p.first_name, last_name |-> p.last_name,
     grade_level |-> p.grade_level,
     passcode |-> generatePasscode(p.lrn, p.first_name, p.last_name),
     has_voted |-> FALSE]

InitCandidates ==
    { [id |-> "c1", position |-> "President", grade_level |-> None],
      [id |-> "c2", position |-> "Grade Level Rep", grade_level |-> Some(10)],
      [id |-> "c3", position |-> "Grade Level Rep", grade_level |-> Some(11)],
      [id |-> "c4", position |-> "Grade Level Rep", grade_level |-> None] }

(***************************************************************************)
(* Backend client wrapper (lib/supabase).  `ok` is whether the request     *)
(* succeeded.                                                              *)
(***************************************************************************)
\* .eq('lrn', lrn).single(): an error (also for no row, or several) gives null
getVoterByLrn(lrn, ok) ==
    LET rows == {v \in voters : v.lrn = lrn}
    IN  IF ok /\ Cardinality(rows) = 1 THEN Some(CHOOSE v \in rows : TRUE) ELSE None

\* select('*') from candidates: an error gives the empty list
getCandidates(ok) == IF ok THEN candidates ELSE {}

\* reads config.election_status: an error or a missing row gives true
getElectionStatus_failClosed(ok) ==
    /\ ok
    /\ "election_status" \in DOMAIN config
    /\ config["election_status"] = "OPEN"

getElectionStatus(ok) ==
    IF ~ok THEN TRUE
    ELSE IF "election_status" \notin DOMAIN config THEN TRUE
    ELSE config["election_status"] = "OPEN"

votesToInsert_abstainAsId(voter, selections) ==
    { [position |-> pos, candidate_id |-> selections[pos],
       grade_level |-> voter.grade_level] : pos \in DOMAIN selections }

votesToInsert_withVoterId(voter, selections) ==
    { [position |-> pos,
       candidate_id |-> IF selections[pos] = ABSTAIN THEN NULL ELSE selections[pos],
       grade_level |-> voter.grade_level, voter_id |-> voter.id] :
      pos \in DOMAIN selections }

\* the rows submitBallot builds from Object.entries(selections)
votesToInsert(voter, selections) ==
    { [position |-> pos,
       candidate_id |-> IF selections[pos] = ABSTAIN THEN NULL ELSE selections[pos],
       grade_level |-> voter.grade_level] : pos \in DOMAIN selections }

\* the backend stamps each inserted row with created_at; the rows of one insert
\* statement share the stamp
Stamped(rows, stamp) == {[created_at |-> stamp] @@ r : r \in rows}

Unstamped(rows) ==
    { [position |-> r.position, candidate_id |-> r.candidate_id,
       grade_level |-> r.grade_level] : r \in rows }

(***************************************************************************)
(* Login (components/Login).                                               *)
(***************************************************************************)
Digits == {"0", "1", "2", "3", "4", "5", "6", "7", "8", "9"}
IsDigit(c) == c \in Digits

\* e.target.value.replace(/\D/g, '')
digitsOnly(s) == SelectSeq(s, IsDigit)

handleLoginOutcome_noVotedCheck(voter, passcode) ==
    IF voter = None THEN "LRN not found"
    ELSE LET v == voter[1]
             generatedPasscode == generatePasscode(v.lrn, v.first_name, v.last_name)
             inputPass == toUpperCase(passcode)
             dbPass == toUpperCase(v.passcode)
         IN  IF inputPass # dbPass /\ inputPass # generatedPasscode
             THEN "Invalid passcode"
             ELSE "ok"

\* steps 2-4 of handleLogin on the result of getVoterByLrn: the error thrown, or "ok"
handleLoginOutcome(voter, passcode) ==
    IF voter = None THEN "LRN not found"
    ELSE LET v == voter[1]
             generatedPasscode == generatePasscode(v.lrn, v.first_name, v.last_name)
             inputPass == toUpperCase(passcode)
             dbPass == toUpperCase(v.passcode)
         IN  IF inputPass # dbPass /\ inputPass # generatedPasscode
             THEN "Invalid passcode"
             ELSE IF v.has_voted THEN "already voted"
             ELSE "ok"

(***************************************************************************)
(* Ballot (components/Ballot).                                             *)
(***************************************************************************)
loadCandidatesFilter_noGradeFilter(allCandidates, voter) == allCandidates

\* the filter of loadCandidates
loadCandidatesFilter(allCandidates, voter) ==
    { c \in allCandidates :
        IF c.position = "Grade Level Rep"
        THEN c.grade_level = Some(voter.grade_level)
        ELSE TRUE }

displayPos(pos, voter) ==
    IF pos = "Grade Level Rep"
    THEN "Grade " \o ToString(voter.grade_level) \o " Representative"
    ELSE pos

\* groups: display position -> its candidates, for the positions of
\* POSITIONS_ORDER that have any
groupedCandidates(cands, voter) ==
    LET shown == { i \in 1..Len(POSITIONS_ORDER) :
                     \E c \in cands : c.position = POSITIONS_ORDER[i] }
    IN  [ key \in {displayPos(POSITIONS_ORDER[i], voter) : i \in shown} |->
            LET i == CHOOSE j \in shown : displayPos(POSITIONS_ORDER[j], voter) = key
            IN  {c \in cands : c.position = POSITIONS_ORDER[i]} ]

isBallotComplete_always(grouped, selections) == TRUE

isBallotComplete(grouped, selections) ==
    \A pos \in DOMAIN grouped : pos \in DOMAIN selections

(***************************************************************************)
(* Initial state: the tables as the setup script and the admin leave them  *)
(* (a registered voter, the candidates, the election OPEN), every session  *)
(* on the login screen.                                                    *)
(***************************************************************************)
NoError == "none"

InitApp == [currentScreen |-> "LOGIN", currentVoter |-> None, flashMode |-> "voter"]

InitLogin ==
    [lrn |-> <<>>, passcode |-> <<>>, error |-> NoError, loading |-> FALSE,
     readFailed |-> FALSE]

\* allCandidates is the local of loadCandidates: what getCandidates returned
InitBallot ==
    [allCandidates |-> {}, candidates |-> {}, selections |-> <<>>,
     isConfirming |-> FALSE, isSubmitting |-> FALSE, isLoading |-> TRUE]

\* pc: where the submitBallot call stands; rows: the rows this call inserted
\* (history); outcome: how the last call ended, shown until the next click on the
\* ballot (history)
InitCall == [pc |-> "idle", outcome |-> "none", rows |-> {}]

InitGp == [lrn |-> <<>>, firstName |-> <<>>, lastName |-> <<>>, result |-> None]

\* AdminDashboard before it is mounted.  polls: the fetchData calls in flight,
\* each with its position and its locals; fetched: the lists the aggregation
\* that set `data` worked on (history); lateUpdate: a poll called a state
\* setter after the unmount (history)
InitDash ==
    [mounted |-> FALSE, interval |-> None, polls |-> <<>>, isLoadingData |-> FALSE,
     candidateList |-> <<>>, voterList |-> {}, data |-> <<>>,
     turnout |-> [voted |-> 0, total |-> 0],
     fetched |-> [cList |-> <<>>, allVotes |-> {}, voteMap |-> <<>>],
     lateUpdate |-> FALSE]

\* SuperAdminDashboard with no handleWipe running.  failed: a delete issued by
\* the running or last handleWipe failed (history)
InitSuper == [pc |-> "idle", type |-> "none", alert |-> "none", failed |-> FALSE]

\* the twin execution: the same operations with the voters relabelled by `of`
\* (a relabelling within each grade level); votes is its votes table, and pc,
\* voter, selections are the submitBallot call the two executions are in
InitTwin ==
    [votes |-> {}, of |-> <<>>, pc |-> "idle", voter |-> None, selections |-> <<>>]

\* no file chosen yet.  called: bulkImportVoters was called for the file
InitCsv == [text |-> <<>>, votersToImport |-> <<>>, called |-> FALSE, alert |-> "none"]

\* the settings modal closed, its fields empty.  requests: the backend requests
\* the last handleUpdateSettings made, sent: the rows it sent (history); verify: the
\* verifyAdminCredentials call in flight, stored being whether an admin
\* password was stored when it was called (history); verified: its arguments
\* and what it returned (history)
InitSettings ==
    [showSettingsModal |-> FALSE, adminLrn |-> <<>>, newPassword |-> <<>>,
     confirmPassword |-> <<>>, isUpdatingSettings |-> FALSE, alert |-> "none",
     requests |-> 0, sent |-> <<>>,
     verify |-> [pc |-> "idle", lrn |-> <<>>, passcode |-> <<>>, lrnData |-> None,
                 stored |-> FALSE],
     verified |-> None]

\* no fetchAllRows running
InitPager == [pc |-> "idle", from |-> 0, allRows |-> <<>>, result |-> None]

\* the registry holds one voter, any of People
InitVoters == {{NewVoter(1, p)} : p \in People}

InitSessions ==
    /\ app = [s \in Sessions |-> InitApp]
    /\ login = [s \in Sessions |-> InitLogin]
    /\ ballot = [s \in Sessions |-> InitBallot]
    /\ call = [s \in Sessions |-> InitCall]
    /\ admin = [isElectionOpen |-> TRUE]
    /\ dash = InitDash
    /\ super = InitSuper
    /\ twin = InitTwin
    /\ csv = InitCsv
    /\ settings = InitSettings
    /\ pager = InitPager

Init ==
    /\ voters \in InitVoters
    /\ candidates = InitCandidates
    /\ votes = {}
    /\ config = [k \in {"election_status"} |-> "OPEN"]
    /\ nextVoterId = 2
    /\ nextBatch = 1
    /\ batchOwner = <<>>
    /\ InitSessions
    /\ gp = InitGp

(***************************************************************************)
(* Login: the form fields, handleLogin.                                    *)
(***************************************************************************)
\* what a user types into the two fields
TypedCredentials ==
    { [lrn |-> <<"1", "2", "3", "a", "4", "5", "6">>,
       passcode |-> <<"2", "3", "4", "5", "6", "j", "d">>],
      [lrn |-> <<"6", "5", "4", "3", "2", "1">>,
       passcode |-> <<"5", "4", "3", "2", "1", "M", "C">>] }

\* onChange of the LRN and passcode inputs: setLrn, setPasscode
setCredentials(s, inputs) ==
    /\ app[s].currentScreen = "LOGIN"
    /\ ~login[s].loading
    /\ \E typed \in inputs :
         login' = [login EXCEPT ![s].lrn = digitsOnly(typed.lrn),
                                ![s].passcode = toUpperCase(typed.passcode)]
    /\ UNCHANGED <<voters, candidates, votes, config, nextVoterId, nextBatch,
                   batchOwner, app, ballot, call, admin, gp,
                   dash, super, twin, csv, settings, pager>>

TypeCredentials(s) == setCredentials(s, TypedCredentials)

\* the Admin test-account button
fillCredentials(s) ==
    /\ app[s].currentScreen = "LOGIN"
    /\ ~login[s].loading
    /\ login' = [login EXCEPT ![s].lrn = ADMIN, ![s].passcode = ADMIN,
                              ![s].error = NoError, ![s].readFailed = FALSE]
    /\ UNCHANGED <<voters, candidates, votes, config, nextVoterId, nextBatch,
                   batchOwner, app, ballot, call, admin, gp,
                   dash, super, twin, csv, settings, pager>>

\* handleLogin up to its await: both fields are required; the hardcoded admin
\* goes to the admin flash screen at once
handleLogin(s) ==
    /\ app[s].currentScreen = "LOGIN"
    /\ ~login[s].loading
    /\ login[s].lrn # <<>> /\ login[s].passcode # <<>>
    /\ IF login[s].lrn = ADMIN /\ login[s].passcode = ADMIN
       THEN /\ app' = [app EXCEPT ![s].flashMode = "admin",
                                  ![s].currentScreen = "FLASH"]
            /\ login' = [login EXCEPT ![s] = InitLogin]
       ELSE /\ login' = [login EXCEPT ![s].error = NoError, ![s].loading = TRUE,
                                      ![s].readFailed = FALSE]
            /\ app' = app
    /\ UNCHANGED <<voters, candidates, votes, config, nextVoterId, nextBatch,
                   batchOwner, ballot, call, admin, gp,
                   dash, super, twin, csv, settings, pager>>

\* handleLogin from the response of getVoterByLrn on: onLoginSuccess shows the
\* voter flash screen (and unmounts Login), an error stays on the login screen
handleLoginResponse(s) ==
    /\ app[s].currentScreen = "LOGIN"
    /\ login[s].loading
    /\ \E ok \in BOOLEAN :
         LET voter == getVoterByLrn(login[s].lrn, ok)
             outcome == handleLoginOutcome(voter, login[s].passcode)
         IN  IF outcome = "ok"
             THEN /\ app' = [app EXCEPT ![s].currentVoter = voter,
                                        ![s].flashMode = "voter",
                                        ![s].currentScreen = "FLASH"]
                  /\ login' = [login EXCEPT ![s] = InitLogin]
             ELSE /\ login' = [login EXCEPT ![s].error = outcome,
                                            ![s].loading = FALSE,
                                            ![s].readFailed = ~ok]
                  /\ app' = app
    /\ UNCHANGED <<voters, candidates, votes, config, nextVoterId, nextBatch,
                   batchOwner, ballot, call, admin, gp,
                   dash, super, twin, csv, settings, pager>>

(***************************************************************************)
(* App: the flash screen timer, logout.                                    *)
(***************************************************************************)
handleFlashComplete(s) ==
    /\ app[s].currentScreen = "FLASH"
    /\ CASE app[s].flashMode = "voter" ->
              /\ app' = [app EXCEPT ![s].currentScreen = "BALLOT"]
              /\ ballot' = [ballot EXCEPT ![s] = InitBallot]
              /\ call' = [call EXCEPT ![s] = InitCall]
              /\ login' = login
         [] app[s].flashMode = "admin" ->
              /\ app' = [app EXCEPT ![s].currentScreen = "ADMIN"]
              /\ UNCHANGED <<ballot, call, login>>
         [] app[s].flashMode = "logout" ->
              /\ app' = [app EXCEPT ![s].currentVoter = None,
                                    ![s].currentScreen = "LOGIN"]
              /\ login' = [login EXCEPT ![s] = InitLogin]
              /\ UNCHANGED <<ballot, call>>
    /\ UNCHANGED <<voters, candidates, votes, config, nextVoterId, nextBatch,
                   batchOwner, admin, gp,
                   dash, super, twin, csv, settings, pager>>

\* the logout button of the ballot header (covered by the confirmation modal
\* while it is open), "Back to Login" of the success page, logout of the admin page
handleLogout(s) ==
    /\ \/ /\ app[s].currentScreen = "BALLOT"
          /\ ~ballot[s].isLoading /\ ~ballot[s].isConfirming
       \/ app[s].currentScreen \in {"SUCCESS", "ADMIN"}
    /\ app' = [app EXCEPT ![s].flashMode = "logout", ![s].currentScreen = "FLASH"]
    /\ ballot' = [ballot EXCEPT ![s] = InitBallot]
    /\ call' = [call EXCEPT ![s] = InitCall]
    /\ UNCHANGED <<voters, candidates, votes, config, nextVoterId, nextBatch,
                   batchOwner, login, admin, gp,
                   dash, super, twin, csv, settings, pager>>

(***************************************************************************)
(* Ballot: loading, selecting, the confirmation modal.                     *)
(***************************************************************************)
Voter(s) == app[s].currentVoter[1]

Grouped(s) == groupedCandidates(ballot[s].candidates, Voter(s))

\* the effect of mounting Ballot: loadCandidates
loadCandidates(s) ==
    /\ app[s].currentScreen = "BALLOT"
    /\ ballot[s].isLoading
    /\ \E ok \in BOOLEAN :
         ballot' = [ballot EXCEPT
                      ![s].allCandidates = getCandidates(ok),
                      ![s].candidates = loadCandidatesFilter(getCandidates(ok), Voter(s)),
                      ![s].isLoading = FALSE]
    /\ UNCHANGED <<voters, candidates, votes, config, nextVoterId, nextBatch,
                   batchOwner, app, login, call, admin, gp,
                   dash, super, twin, csv, settings, pager>>

\* a click on a candidate card or on Abstain of a displayed position
handleSelect(s) ==
    /\ app[s].currentScreen = "BALLOT"
    /\ ~ballot[s].isLoading /\ ~ballot[s].isConfirming
    /\ \E positionKey \in DOMAIN Grouped(s) :
         \E candidateId \in {c.id : c \in Grouped(s)[positionKey]} \cup {ABSTAIN} :
            ballot' = [ballot EXCEPT
                         ![s].selections = (positionKey :> candidateId) @@ @]
    /\ call' = [call EXCEPT ![s] = InitCall]
    /\ UNCHANGED <<voters, candidates, votes, config, nextVoterId, nextBatch,
                   batchOwner, app, login, admin, gp,
                   dash, super, twin, csv, settings, pager>>

\* "Review & Submit": disabled unless isBallotComplete
openConfirm(s) ==
    /\ app[s].currentScreen = "BALLOT"
    /\ ~ballot[s].isLoading /\ ~ballot[s].isConfirming
    /\ isBallotComplete(Grouped(s), ballot[s].selections)
    /\ ballot' = [ballot EXCEPT ![s].isConfirming = TRUE]
    /\ call' = [call EXCEPT ![s] = InitCall]
    /\ UNCHANGED <<voters, candidates, votes, config, nextVoterId, nextBatch,
                   batchOwner, app, login, admin, gp,
                   dash, super, twin, csv, settings, pager>>

\* "Edit" of the confirmation modal: disabled while submitting
editBallot(s) ==
    /\ app[s].currentScreen = "BALLOT"
    /\ ballot[s].isConfirming /\ ~ballot[s].isSubmitting
    /\ ballot' = [ballot EXCEPT ![s].isConfirming = FALSE]
    /\ UNCHANGED <<voters, candidates, votes, config, nextVoterId, nextBatch,
                   batchOwner, app, login, call, admin, gp,
                   dash, super, twin, csv, settings, pager>>

\* "Cast Vote" left enabled while a call is running
handleSubmit_whileSubmitting(s) ==
    /\ app[s].currentScreen = "BALLOT"
    /\ ballot[s].isConfirming
    /\ ballot' = [ballot EXCEPT ![s].isSubmitting = TRUE]
    /\ call' = [call EXCEPT ![s] = [pc |-> "status", outcome |-> "none", rows |-> {}]]
    /\ UNCHANGED <<voters, candidates, votes, config, nextVoterId, nextBatch,
                   batchOwner, app, login, admin, gp,
                   dash, super, twin, csv, settings, pager>>

\* "Cast Vote": handleSubmit up to the first await of submitBallot
handleSubmit(s) ==
    /\ app[s].currentScreen = "BALLOT"
    /\ ballot[s].isConfirming /\ ~ballot[s].isSubmitting
    /\ ballot' = [ballot EXCEPT ![s].isSubmitting = TRUE]
    /\ call' = [call EXCEPT ![s] = [pc |-> "status", outcome |-> "none", rows |-> {}]]
    /\ UNCHANGED <<voters, candidates, votes, config, nextVoterId, nextBatch,
                   batchOwner, app, login, admin, gp,
                   dash, super, twin, csv, settings, pager>>

(***************************************************************************)
(* submitBallot, one action per backend request, each with the rest of     *)
(* handleSubmit that runs when the call returns.                           *)
(***************************************************************************)
submitFailed_keepSubmitting(s, why) ==
    /\ call' = [call EXCEPT ![s] = [pc |-> "idle", outcome |-> why, rows |-> {}]]
    /\ ballot' = [ballot EXCEPT ![s].isConfirming = FALSE]
    /\ app' = app

\* submitBallot returned false: the else branch of handleSubmit
submitFailed(s, why) ==
    /\ call' = [call EXCEPT ![s] = [pc |-> "idle", outcome |-> why, rows |-> {}]]
    /\ ballot' = [ballot EXCEPT ![s].isSubmitting = FALSE, ![s].isConfirming = FALSE]
    /\ app' = app

\* await getElectionStatus(); if (!isOpen) return false
submitCheckStatus(s) ==
    /\ call[s].pc = "status"
    /\ \E ok \in BOOLEAN :
         IF getElectionStatus(ok)
         THEN /\ call' = [call EXCEPT ![s].pc = "insert"]
              /\ UNCHANGED <<ballot, app>>
         ELSE submitFailed(s, "closed")
    /\ UNCHANGED <<voters, candidates, votes, config, nextVoterId, nextBatch,
                   batchOwner, login, admin, gp,
                   dash, super, twin, csv, settings, pager>>

\* await supabase.from('votes').insert(votesToInsert)
submitInsertVotes(s) ==
    /\ call[s].pc = "insert"
    /\ \/ /\ nextBatch <= MaxBatches
          /\ LET rows == Stamped(votesToInsert(Voter(s), ballot[s].selections), nextBatch)
             IN  /\ votes' = votes \cup rows
                 /\ call' = [call EXCEPT ![s].pc = "update", ![s].rows = rows]
          /\ batchOwner' = Append(batchOwner, Voter(s).id)
          /\ nextBatch' = nextBatch + 1
          /\ UNCHANGED <<ballot, app>>
       \/ /\ submitFailed(s, "insertError")
          /\ UNCHANGED <<votes, batchOwner, nextBatch>>
    /\ UNCHANGED <<voters, candidates, config, nextVoterId, login, admin, gp,
                   dash, super, twin, csv, settings, pager>>

\* await supabase.from('voters').update({ has_voted: true }).eq('id', voter.id);
\* return true, and handleSubmit calls onVoteSubmitted (App shows SUCCESS)
submitMarkVoted(s) ==
    /\ call[s].pc = "update"
    /\ \/ /\ voters' = { IF v.id = Voter(s).id THEN [v EXCEPT !.has_voted = TRUE] ELSE v
                         : v \in voters }
          /\ call' = [call EXCEPT ![s] = [pc |-> "idle", outcome |-> "ok", rows |-> {}]]
          /\ app' = [app EXCEPT ![s].currentScreen = "SUCCESS"]
          /\ ballot' = [ballot EXCEPT ![s] = InitBallot]
       \/ /\ submitFailed(s, "updateError")
          /\ voters' = voters
    /\ UNCHANGED <<votes, candidates, config, nextVoterId, nextBatch, batchOwner,
                   login, admin, gp,
                   dash, super, twin, csv, settings, pager>>

(***************************************************************************)
(* AdminDashboard: election status.                                        *)
(***************************************************************************)
\* the status part of fetchData (mount, the 5 s poll, the refresh after a change)
fetchData ==
    /\ \E ok \in BOOLEAN : admin' = [admin EXCEPT !.isElectionOpen = getElectionStatus(ok)]
    /\ UNCHANGED <<voters, candidates, votes, config, nextVoterId, nextBatch,
                   batchOwner, app, login, ballot, call, gp,
                   dash, super, twin, csv, settings, pager>>

\* setElectionStatus: upsert of the election_status row
setElectionStatus(isOpen) ==
    [k \in DOMAIN config \cup {"election_status"} |->
        IF k = "election_status" THEN (IF isOpen THEN "OPEN" ELSE "CLOSED")
        ELSE config[k]]

\* the confirmed toggle: setElectionStatus(!isElectionOpen), then the local flag;
\* a failed upsert changes neither
handleToggleElection ==
    /\ \/ /\ config' = setElectionStatus(~admin.isElectionOpen)
          /\ admin' = [admin EXCEPT !.isElectionOpen = ~admin.isElectionOpen]
       \/ UNCHANGED <<config, admin>>
    /\ UNCHANGED <<voters, candidates, votes, nextVoterId, nextBatch,
                   batchOwner, app, login, ballot, call, gp,
                   dash, super, twin, csv, settings, pager>>

(***************************************************************************)
(* The specification of the application.                                   *)
(***************************************************************************)
SessionNext(s) ==
    \/ TypeCredentials(s)
    \/ handleLogin(s)
    \/ handleLoginResponse(s)
    \/ handleFlashComplete(s)
    \/ handleLogout(s)
    \/ loadCandidates(s)
    \/ handleSelect(s)
    \/ openConfirm(s)
    \/ editBallot(s)
    \/ handleSubmit(s)
    \/ submitCheckStatus(s)
    \/ submitInsertVotes(s)
    \/ submitMarkVoted(s)

AppNext ==
    \/ \E s \in Sessions : SessionNext(s)
    \/ fetchData
    \/ handleToggleElection

Next == AppNext

Spec == Init /\ [][Next]_vars

(***************************************************************************)
(* The login form alone, over registries that also hold a voter who has    *)
(* voted and rows whose stored passcode differs from the formula (the case *)
(* handleLogin's second comparison is written for).                        *)
(***************************************************************************)
LoginPerson == CHOOSE p \in People : p.grade_level = 10

LoginRegistries ==
    LET row == NewVoter(1, LoginPerson)
    IN  { {},
          {row},
          {[row EXCEPT !.has_voted = TRUE]},
          {[row EXCEPT !.passcode = <<"2", "3", "4", "5", "6", "j", "d">>]},
          {[row EXCEPT !.passcode = <<"0", "0", "0", "0", "0", "x", "x">>]},
          {[row EXCEPT !.passcode = <<"0", "0", "0", "0", "0", "x", "x">>,
                       !.has_voted = TRUE]} }

LoginTyped ==
    { [lrn |-> l, passcode |-> p] :
        l \in { <<"1", "2", "3", "a", "4", "5", "6">>, <<"9", "9", "9", "9", "9", "9">> },
        p \in { <<"2", "3", "4", "5", "6", "j", "d">>, <<"0", "0", "0", "0", "0", "X", "x">>,
                <<"2", "3", "4", "5", "6", "d", "j">> } }

TypeLoginCredentials(s) == setCredentials(s, LoginTyped)

LoginInit ==
    /\ voters \in LoginRegistries
    /\ candidates = InitCandidates
    /\ votes = {}
    /\ config = [k \in {"election_status"} |-> "OPEN"]
    /\ nextVoterId = 2
    /\ nextBatch = 1
    /\ batchOwner = <<>>
    /\ InitSessions
    /\ gp = InitGp

LoginNext ==
    \E s \in Sessions :
        \/ TypeLoginCredentials(s)
        \/ fillCredentials(s)
        \/ handleLogin(s)
        \/ handleLoginResponse(s)

SpecLogin == LoginInit /\ [][LoginNext]_vars

(***************************************************************************)
(* generatePasscode alone, applied once to inputs drawn from GpLrns and    *)
(* GpNames.                                                                *)
(***************************************************************************)
GpLrns ==
    { <<>>, <<"1", "2", "3", "4">>, <<"1", "2", "3", "4", "5">>,
      <<"a", "2", "3", "4", "5", "b">>,
      <<"1", "2", "3", "4", "5", "6", "7", "8", "9", "0", "1", "2">> }

GpNames == { <<>>, <<"j", "u">>, <<"D">>, <<"1", "a">> }

PasscodeInit ==
    /\ voters = {}
    /\ candidates = {}
    /\ votes = {}
    /\ config = [k \in {"election_status"} |-> "OPEN"]
    /\ nextVoterId = 1
    /\ nextBatch = 1
    /\ batchOwner = <<>>
    /\ InitSessions
    /\ gp \in [lrn : GpLrns, firstName : GpNames, lastName : GpNames, result : {None}]

applyGeneratePasscode ==
    /\ gp.result = None
    /\ gp' = [gp EXCEPT !.result = Some(generatePasscode(gp.lrn, gp.firstName, gp.lastName))]
    /\ UNCHANGED appVars

PasscodeNext == applyGeneratePasscode

SpecPasscode == PasscodeInit /\ [][PasscodeNext]_vars

(***************************************************************************)
(* AdminDashboard: the voter registry (voter form, CSV import, delete).    *)
(***************************************************************************)
\* the value of a decimal digit
DigitValue(c) == CHOOSE n \in 0..9 : ToString(n) = c

RECURSIVE parseDigits(_, _)
parseDigits(s, acc) ==
    IF s = <<>> \/ ~IsDigit(Head(s)) THEN acc
    ELSE parseDigits(Tail(s), acc * 10 + DigitValue(Head(s)))

\* parseInt on trimmed, unsigned text: the leading digits, None (NaN) without any
parseInt(s) == IF s = <<>> \/ ~IsDigit(s[1]) THEN None ELSE Some(parseDigits(s, 0))

\* parseInt(v.grade_level) || 0
parseGradeOrZero(s) == IF parseInt(s) = None THEN 0 ELSE parseInt(s)[1]

\* the objects handleFileImport builds: the data rows (split at commas, the
\* cells trimmed) with four columns or more
votersToImport(rows) ==
    LET kept == SelectSeq(rows, LAMBDA cols : Len(cols) >= 4)
    IN  [i \in 1..Len(kept) |->
            [lrn |-> kept[i][1], first_name |-> kept[i][2],
             last_name |-> kept[i][3], grade_level |-> kept[i][4]]]

\* step 1 of bulkImportVoters
processedData(votersData) ==
    [i \in 1..Len(votersData) |->
        LET v == votersData[i]
        IN  [lrn |-> v.lrn, first_name |-> v.first_name, last_name |-> v.last_name,
             grade_level |-> parseGradeOrZero(v.grade_level),
             passcode |-> generatePasscode(v.lrn, v.first_name, v.last_name),
             has_voted |-> FALSE]]

RECURSIVE upsertVoters_insertAll(_, _, _)
upsertVoters_insertAll(chunk, table, id) ==
    IF chunk = <<>> THEN table
    ELSE upsertVoters_insertAll(Tail(chunk), table \cup {[id |-> id] @@ Head(chunk)}, id + 1)

RECURSIVE upsertVoters_overwrite(_, _, _)
upsertVoters_overwrite(chunk, table, id) ==
    IF chunk = <<>> THEN table
    ELSE LET row == Head(chunk)
             old == {v \in table : v.lrn = row.lrn}
         IN  IF old # {}
             THEN upsertVoters_overwrite(Tail(chunk),
                     (table \ old) \cup {[id |-> v.id] @@ row : v \in old}, id)
             ELSE upsertVoters_overwrite(Tail(chunk), table \cup {[id |-> id] @@ row}, id + 1)

\* .upsert(chunk, { onConflict: 'lrn', ignoreDuplicates: true }): a row whose lrn
\* is in the table (or was inserted earlier by the statement) is skipped; id is
\* the id of the next inserted row
RECURSIVE upsertVoters(_, _, _)
upsertVoters(chunk, table, id) ==
    IF chunk = <<>> THEN table
    ELSE LET row == Head(chunk)
         IN  IF \E v \in table : v.lrn = row.lrn
             THEN upsertVoters(Tail(chunk), table, id)
             ELSE upsertVoters(Tail(chunk), table \cup {[id |-> id] @@ row}, id + 1)

\* CSV files (without the header line): each row the sequence of its cells
CsvFiles ==
    { << << <<"1", "2", "3", "4", "5", "6">>, <<"J", "x">>, <<"D", "y">>, <<"1", "0">> >>,
         << <<"0", "0", "0", "0", "0", "0">>, <<"a">>, <<"b">>, <<"x">> >>,
         << <<"7", "7", "7", "7", "7", "7">>, <<"c">>, <<"d">> >> >>,
      << << <<"6", "5", "4", "3", "2", "1">>, <<"M", "a">>, <<"c", "l">>, <<"9">> >>,
         << <<"6", "5", "4", "3", "2", "1">>, <<"M", "b">>, <<"c", "d">>, <<"9">> >> >>,
      << << <<"8", "8", "8", "8", "8", "8">>, <<"m">>, <<"a">>, <<"1", "2", "t", "h">>,
            <<"x">> >> >> }

\* handleFileImport: parse, bulkImportVoters (files of up to 100 data rows are one
\* upsert), the alert; a failed upsert inserts nothing
handleFileImport ==
    /\ \E file \in CsvFiles :
         LET rows == votersToImport(file)
             table == upsertVoters(processedData(rows), voters, nextVoterId)
             added == Cardinality(table) - Cardinality(voters)
         IN  /\ Len(rows) > 0
             /\ \/ /\ nextVoterId + added - 1 <= MaxVoterId
                   /\ voters' = table
                   /\ nextVoterId' = nextVoterId + added
                \/ UNCHANGED <<voters, nextVoterId>>
    /\ UNCHANGED <<candidates, votes, config, nextBatch, batchOwner, app, login,
                   ballot, call, admin, gp, dash, super, twin, csv, settings, pager>>

\* handleAddVoter: addVoter inserts the row of the form; the insert fails when
\* the LRN is registered (the alert 'This LRN is already registered')
handleAddVoter ==
    /\ \E voterForm \in People :
         \/ /\ nextVoterId <= MaxVoterId
            /\ ~ \E v \in voters : v.lrn = voterForm.lrn
            /\ voters' = voters \cup {NewVoter(nextVoterId, voterForm)}
            /\ nextVoterId' = nextVoterId + 1
         \/ UNCHANGED <<voters, nextVoterId>>
    /\ UNCHANGED <<candidates, votes, config, nextBatch, batchOwner, app, login,
                   ballot, call, admin, gp, dash, super, twin, csv, settings, pager>>

\* deleteVoter: delete().eq('id', id)
deleteVoter(id) == {v \in voters : v.id # id}

\* handleDelete(id, 'voter'), confirmed
handleDeleteVoter ==
    /\ \E row \in voters :
         \/ voters' = deleteVoter(row.id)
         \/ voters' = voters
    /\ UNCHANGED <<candidates, votes, config, nextVoterId, nextBatch, batchOwner, app,
                   login, ballot, call, admin, gp, dash, super, twin, csv, settings, pager>>

(***************************************************************************)
(* SuperAdminDashboard: handleWipe and the three wipes, one action per     *)
(* delete request.                                                         *)
(***************************************************************************)
LRN_000000 == <<"0", "0", "0", "0", "0", "0">>

\* what delete().neq(column, value) leaves: the rows whose column equals value
votesLeftByWipe == {r \in votes : r.grade_level = 0}

candidatesLeftByWipe == {c \in candidates : c.position = "INVALID"}

votersLeftByWipe == {v \in voters : v.lrn = LRN_000000}

WipeTypes == {"voters", "candidates", "all"}

\* handleWipe(type) after the confirmation, up to the first request
handleWipe ==
    /\ super.pc = "idle"
    /\ \E type \in WipeTypes :
         super' = [pc |-> CASE type = "voters" -> "wipeAllVoters"
                            [] type = "candidates" -> "wipeAllCandidates.votes"
                            [] type = "all" -> "factoryReset.votes",
                   type |-> type, alert |-> "none", failed |-> FALSE]
    /\ UNCHANGED <<voters, candidates, votes, config, nextVoterId, nextBatch,
                   batchOwner, app, login, ballot, call, admin, gp, dash, twin, csv, settings, pager>>

wipeAllVoters_cascade ==
    /\ super.pc = "wipeAllVoters"
    /\ \/ /\ voters' = votersLeftByWipe
          /\ super' = [super EXCEPT !.pc = "idle", !.alert = "Wiped"]
          /\ votes' = {}
       \/ /\ voters' = voters
          /\ super' = [super EXCEPT !.pc = "idle", !.alert = "Error", !.failed = TRUE]
          /\ votes' = votes
    /\ UNCHANGED <<candidates, config, nextVoterId, nextBatch, batchOwner, app,
                   login, ballot, call, admin, gp, dash, twin, csv, settings, pager>>

\* wipeAllVoters: an error is thrown; handleWipe shows 'Wiped' or the error
wipeAllVoters ==
    /\ super.pc = "wipeAllVoters"
    /\ \/ /\ voters' = votersLeftByWipe
          /\ super' = [super EXCEPT !.pc = "idle", !.alert = "Wiped"]
       \/ /\ voters' = voters
          /\ super' = [super EXCEPT !.pc = "idle", !.alert = "Error", !.failed = TRUE]
    /\ UNCHANGED <<candidates, votes, config, nextVoterId, nextBatch, batchOwner, app,
                   login, ballot, call, admin, gp, dash, twin, csv, settings, pager>>

\* wipeAllCandidates, the delete on votes: its result is not read
wipeAllCandidatesVotes ==
    /\ super.pc = "wipeAllCandidates.votes"
    /\ \/ /\ votes' = votesLeftByWipe
          /\ super' = [super EXCEPT !.pc = "wipeAllCandidates.candidates"]
       \/ /\ votes' = votes
          /\ super' = [super EXCEPT !.pc = "wipeAllCandidates.candidates",
                                    !.failed = TRUE]
    /\ UNCHANGED <<voters, candidates, config, nextVoterId, nextBatch, batchOwner, app,
                   login, ballot, call, admin, gp, dash, twin, csv, settings, pager>>

wipeAllCandidatesRows_resetVoters ==
    /\ super.pc = "wipeAllCandidates.candidates"
    /\ \/ /\ candidates' = candidatesLeftByWipe
          /\ voters' = {[v EXCEPT !.has_voted = FALSE] : v \in voters}
          /\ super' = [super EXCEPT !.pc = "idle", !.alert = "Wiped"]
       \/ /\ candidates' = candidates
          /\ voters' = voters
          /\ super' = [super EXCEPT !.pc = "idle", !.alert = "Error", !.failed = TRUE]
    /\ UNCHANGED <<votes, config, nextVoterId, nextBatch, batchOwner, app,
                   login, ballot, call, admin, gp, dash, twin, csv, settings, pager>>

\* wipeAllCandidates, the delete on candidates: an error is thrown
wipeAllCandidatesRows ==
    /\ super.pc = "wipeAllCandidates.candidates"
    /\ \/ /\ candidates' = candidatesLeftByWipe
          /\ super' = [super EXCEPT !.pc = "idle", !.alert = "Wiped"]
       \/ /\ candidates' = candidates
          /\ super' = [super EXCEPT !.pc = "idle", !.alert = "Error", !.failed = TRUE]
    /\ UNCHANGED <<voters, votes, config, nextVoterId, nextBatch, batchOwner, app,
                   login, ballot, call, admin, gp, dash, twin, csv, settings, pager>>

\* factoryResetElection: three deletes, no result is read
factoryResetVotes ==
    /\ super.pc = "factoryReset.votes"
    /\ \/ /\ votes' = votesLeftByWipe
          /\ super' = [super EXCEPT !.pc = "factoryReset.candidates"]
       \/ /\ votes' = votes
          /\ super' = [super EXCEPT !.pc = "factoryReset.candidates", !.failed = TRUE]
    /\ UNCHANGED <<voters, candidates, config, nextVoterId, nextBatch, batchOwner, app,
                   login, ballot, call, admin, gp, dash, twin, csv, settings, pager>>

factoryResetCandidates ==
    /\ super.pc = "factoryReset.candidates"
    /\ \/ /\ candidates' = candidatesLeftByWipe
          /\ super' = [super EXCEPT !.pc = "factoryReset.voters"]
       \/ /\ candidates' = candidates
          /\ super' = [super EXCEPT !.pc = "factoryReset.voters", !.failed = TRUE]
    /\ UNCHANGED <<voters, votes, config, nextVoterId, nextBatch, batchOwner, app,
                   login, ballot, call, admin, gp, dash, twin, csv, settings, pager>>

factoryResetVoters ==
    /\ super.pc = "factoryReset.voters"
    /\ \/ /\ voters' = votersLeftByWipe
          /\ super' = [super EXCEPT !.pc = "idle", !.alert = "Reset"]
       \/ /\ voters' = voters
          /\ super' = [super EXCEPT !.pc = "idle", !.alert = "Reset", !.failed = TRUE]
    /\ UNCHANGED <<candidates, votes, config, nextVoterId, nextBatch, batchOwner, app,
                   login, ballot, call, admin, gp, dash, twin, csv, settings, pager>>

(***************************************************************************)
(* The registry and the wipes next to one voter session.                   *)
(***************************************************************************)
\* what the voter of the session types: the credentials of the voter of Init
AdminTyped ==
    { [lrn |-> <<"1", "2", "3", "4", "5", "6">>,
       passcode |-> <<"2", "3", "4", "5", "6", "J", "D">>] }

TypeVoterCredentials(s) == setCredentials(s, AdminTyped)

\* the registry after a first voter was registered and deleted and a second
\* registered; the candidates for President
AdminInit ==
    /\ voters = {NewVoter(2, LoginPerson)}
    /\ candidates = {c \in InitCandidates : c.position = "President"}
    /\ votes = {}
    /\ config = [k \in {"election_status"} |-> "OPEN"]
    /\ nextVoterId = 3
    /\ nextBatch = 1
    /\ batchOwner = <<>>
    /\ InitSessions
    /\ gp = InitGp

VoterSession == CHOOSE s \in Sessions : TRUE

AdminNext ==
    \/ TypeVoterCredentials(VoterSession)
    \/ handleLogin(VoterSession)
    \/ handleLoginResponse(VoterSession)
    \/ handleFlashComplete(VoterSession)
    \/ handleLogout(VoterSession)
    \/ loadCandidates(VoterSession)
    \/ handleSelect(VoterSession)
    \/ openConfirm(VoterSession)
    \/ editBallot(VoterSession)
    \/ handleSubmit(VoterSession)
    \/ submitCheckStatus(VoterSession)
    \/ submitInsertVotes(VoterSession)
    \/ submitMarkVoted(VoterSession)
    \/ fetchData
    \/ handleToggleElection
    \/ handleAddVoter
    \/ handleFileImport
    \/ handleDeleteVoter
    \/ handleWipe
    \/ wipeAllVoters
    \/ wipeAllCandidatesVotes
    \/ wipeAllCandidatesRows
    \/ factoryResetVotes
    \/ factoryResetCandidates
    \/ factoryResetVoters

SpecAdmin == AdminInit /\ [][AdminNext]_vars

(***************************************************************************)
(* The wipes alone, over tables that hold what the voter form, a CSV       *)
(* import and cast ballots leave: also a voter with LRN 000000 imported    *)
(* with a non-numeric grade, and the vote that voter cast.                 *)
(***************************************************************************)
VotedRow(v) == [v EXCEPT !.has_voted = TRUE]

WipeVoterA == NewVoter(1, LoginPerson)

\* the second row of the first CSV file, as the import stores it
WipeVoterZ ==
    [id |-> 2] @@ processedData(votersToImport(
        << << LRN_000000, <<"a">>, <<"b">>, <<"x">> >> >>))[1]

WipeVotesA ==
    Stamped(votesToInsert(WipeVoterA,
        ("President" :> "c1") @@ (displayPos("Grade Level Rep", WipeVoterA) :> ABSTAIN)), 1)

WipeVotesZ == Stamped(votesToInsert(WipeVoterZ, ("President" :> "c1")), 2)

WipeTables ==
    { [voters |-> {}, votes |-> {}],
      [voters |-> {WipeVoterA}, votes |-> {}],
      [voters |-> {VotedRow(WipeVoterA)}, votes |-> WipeVotesA],
      [voters |-> {WipeVoterA, VotedRow(WipeVoterZ)}, votes |-> WipeVotesZ],
      [voters |-> {VotedRow(WipeVoterA), VotedRow(WipeVoterZ)},
       votes |-> WipeVotesA \cup WipeVotesZ] }

WipeInit ==
    /\ \E tables \in WipeTables : voters = tables.voters /\ votes = tables.votes
    /\ candidates = InitCandidates
    /\ config = [k \in {"election_status"} |-> "OPEN"]
    /\ nextVoterId = 3
    /\ nextBatch = 3
    /\ batchOwner = <<1, 2>>
    /\ InitSessions
    /\ gp = InitGp

WipeNext ==
    \/ handleWipe
    \/ wipeAllVoters
    \/ wipeAllCandidatesVotes
    \/ wipeAllCandidatesRows
    \/ factoryResetVotes
    \/ factoryResetCandidates
    \/ factoryResetVoters

SpecWipe == WipeInit /\ [][WipeNext]_vars

(***************************************************************************)
(* The registry alone: voter form, CSV import and delete over registries   *)
(* that hold a voter who has voted or whose stored passcode differs from   *)
(* the formula.                                                            *)
(***************************************************************************)
ImportInit ==
    /\ voters \in LoginRegistries
    /\ candidates = InitCandidates
    /\ votes = {}
    /\ config = [k \in {"election_status"} |-> "OPEN"]
    /\ nextVoterId = 2
    /\ nextBatch = 1
    /\ batchOwner = <<>>
    /\ InitSessions
    /\ gp = InitGp

ImportNext ==
    \/ handleFileImport
    \/ handleAddVoter
    \/ handleDeleteVoter

SpecImport == ImportInit /\ [][ImportNext]_vars

(***************************************************************************)
(* handleFileImport from the text of the file: reader.onload.  A text is   *)
(* the sequence of its characters; LF, CR and TAB stand for the line feed, *)
(* carriage return and tab characters.                                     *)
(***************************************************************************)
LF == "LF"
CR == "CR"
TAB == "TAB"
COMMA == ","

\* the white space String.prototype.trim removes
IsWhitespace(c) == c \in {" ", LF, CR, TAB}

trim_none(s) == s

\* s.trim()
RECURSIVE trim(_)
trim(s) ==
    IF s = <<>> THEN s
    ELSE IF IsWhitespace(s[1]) THEN trim(Tail(s))
    ELSE IF IsWhitespace(s[Len(s)]) THEN trim(SubSeq(s, 1, Len(s) - 1))
    ELSE s

\* s.split(sep) for a one-character separator
RECURSIVE split(_, _)
split(s, sep) ==
    IF \A i \in 1..Len(s) : s[i] # sep THEN <<s>>
    ELSE LET i == CHOOSE j \in 1..Len(s) :
                    s[j] = sep /\ \A k \in 1..(j - 1) : s[k] # sep
         IN  <<SubSeq(s, 1, i - 1)>> \o split(SubSeq(s, i + 1, Len(s)), sep)

\* the loop of reader.onload from i = 1: the cells of the lines that are not
\* blank, trimmed
csvRows(text) ==
    LET rows == split(text, LF)
        data == [i \in 1..(Len(rows) - 1) |-> trim(rows[i + 1])]
        kept == SelectSeq(data, LAMBDA row : row # <<>>)
    IN  [i \in 1..Len(kept) |->
            LET cols == split(kept[i], COMMA)
            IN  [j \in 1..Len(cols) |-> trim(cols[j])]]

\* lines of a file: plain, padded and ending in CR, blank, of three, five and
\* four empty fields
CsvLines ==
    { <<"1", "2", COMMA, "a", COMMA, "b", COMMA, "9">>,
      <<" ", "3", "4", " ", COMMA, TAB, "c", COMMA, "d", " ", COMMA, "x", " ", CR>>,
      <<>>,
      <<" ", CR>>,
      <<"5", COMMA, "e", COMMA, "f">>,
      <<"6", COMMA, "g", COMMA, " ", "h", COMMA, "1", "0", COMMA, "z">>,
      <<COMMA, COMMA, COMMA>> }

CsvHeaders ==
    { <<"l", COMMA, "f", COMMA, "n", COMMA, "g">>,
      <<"7", COMMA, "i", COMMA, "j", COMMA, "8">> }

\* the files: empty, or a first line and up to MaxLines more
MaxLines == 2

RECURSIVE CsvBodies(_)
CsvBodies(n) ==
    IF n = 0 THEN {<<>>}
    ELSE CsvBodies(n - 1) \cup
         { body \o <<LF>> \o line : body \in CsvBodies(n - 1), line \in CsvLines }

CsvTexts == {<<>>} \cup { h \o body : h \in CsvHeaders, body \in CsvBodies(MaxLines) }

\* reader.onload: parse the text, call bulkImportVoters when a line qualified,
\* show the alert.  Files are chosen until one is imported.
readerOnload ==
    /\ ~csv.called
    /\ \E text \in CsvTexts :
         IF text = <<>> THEN UNCHANGED <<csv, voters, nextVoterId>>
         ELSE LET rows == votersToImport(csvRows(text))
                  table == upsertVoters(processedData(rows), voters, nextVoterId)
                  added == Cardinality(table) - Cardinality(voters)
              IN  IF Len(rows) > 0
                  THEN \/ /\ nextVoterId + added - 1 <= MaxVoterId
                          /\ voters' = table
                          /\ nextVoterId' = nextVoterId + added
                          /\ csv' = [text |-> text, votersToImport |-> rows,
                                     called |-> TRUE, alert |-> "Import Complete"]
                       \/ /\ UNCHANGED <<voters, nextVoterId>>
                          /\ csv' = [text |-> text, votersToImport |-> rows,
                                     called |-> TRUE, alert |-> "Import Error"]
                  ELSE /\ UNCHANGED <<voters, nextVoterId>>
                       /\ csv' = [text |-> text, votersToImport |-> rows,
                                  called |-> FALSE, alert |-> "Invalid CSV"]
    /\ UNCHANGED <<candidates, votes, config, nextBatch, batchOwner, app, login,
                   ballot, call, admin, gp, dash, super, twin, settings, pager>>

CsvInit ==
    /\ voters = {}
    /\ candidates = InitCandidates
    /\ votes = {}
    /\ config = [k \in {"election_status"} |-> "OPEN"]
    /\ nextVoterId = 1
    /\ nextBatch = 1
    /\ batchOwner = <<>>
    /\ InitSessions
    /\ gp = InitGp

CsvNext ==
    \/ readerOnload
    \/ handleDeleteVoter

SpecCsv == CsvInit /\ [][CsvNext]_vars

(***************************************************************************)
(* Admin credentials: the settings modal of AdminDashboard, and            *)
(* verifyAdminCredentials, getAdminLrn, updateAdminCredentials of the      *)
(* backend module.                                                         *)
(***************************************************************************)
DEFAULT_ADMIN_LRN == <<"1", "1", "1", "1", "1", "1", "1", "1", "1", "1", "1", "1">>
DEFAULT_ADMIN_PASS ==
    <<"S", "S", "L", "G", "R", "M", "C", "H", "S", "@", "2", "0", "2", "6">>

MinPasswordLength == 6

\* select('value').eq('key', key).single(): data is the row, or null when
\* the request fails or there is no row
configData(key, ok) ==
    IF ok /\ key \in DOMAIN config THEN Some(config[key]) ELSE None

\* data?.value || dflt
valueOr(data, dflt) == IF data # None /\ data[1] # <<>> THEN data[1] ELSE dflt

\* getAdminLrn
getAdminLrn(ok) == valueOr(configData("admin_lrn", ok), DEFAULT_ADMIN_LRN)

updates_alwaysPassword(lrn, password) ==
    ("admin_lrn" :> lrn) @@ ("admin_password" :> password)

\* updateAdminCredentials: the rows it upserts; password is <<>> for undefined
updates(lrn, password) ==
    IF password # <<>>
    THEN ("admin_lrn" :> lrn) @@ ("admin_password" :> password)
    ELSE ("admin_lrn" :> lrn)

\* what the settings fields may hold
SettingsLrns == {<<>>, DEFAULT_ADMIN_LRN, <<"a", "d", "m", "2">>}

SettingsPasswords ==
    {<<>>, <<"a", "b", "c">>, <<"s", "e", "c", "r", "e", "t">>}

\* handleOpenSettings: getAdminLrn, setAdminLrn, setShowSettingsModal(true)
handleOpenSettings ==
    /\ ~settings.showSettingsModal
    /\ \E ok \in BOOLEAN :
          settings' = [settings EXCEPT !.adminLrn = getAdminLrn(ok),
                                       !.showSettingsModal = TRUE]
    /\ UNCHANGED <<voters, candidates, votes, config, nextVoterId, nextBatch,
                   batchOwner, app, login, ballot, call, admin, gp, dash, super, twin,
                   csv, pager>>

\* the LRN field: setAdminLrn(e.target.value)
setAdminLrn ==
    /\ settings.showSettingsModal
    /\ \E value \in SettingsLrns : settings' = [settings EXCEPT !.adminLrn = value]
    /\ UNCHANGED <<voters, candidates, votes, config, nextVoterId, nextBatch,
                   batchOwner, app, login, ballot, call, admin, gp, dash, super, twin,
                   csv, pager>>

\* the password field: setNewPassword(e.target.value)
setNewPassword ==
    /\ settings.showSettingsModal
    /\ \E value \in SettingsPasswords :
          settings' = [settings EXCEPT !.newPassword = value]
    /\ UNCHANGED <<voters, candidates, votes, config, nextVoterId, nextBatch,
                   batchOwner, app, login, ballot, call, admin, gp, dash, super, twin,
                   csv, pager>>

\* the confirmation field, shown while a password is entered
setConfirmPassword ==
    /\ settings.showSettingsModal
    /\ settings.newPassword # <<>>
    /\ \E value \in SettingsPasswords :
          settings' = [settings EXCEPT !.confirmPassword = value]
    /\ UNCHANGED <<voters, candidates, votes, config, nextVoterId, nextBatch,
                   batchOwner, app, login, ballot, call, admin, gp, dash, super, twin,
                   csv, pager>>

\* handleUpdateSettings: the three validations, updateAdminCredentials, the alert
handleUpdateSettings ==
    /\ settings.showSettingsModal
    /\ IF settings.adminLrn = <<>>
       THEN /\ settings' = [settings EXCEPT !.alert = "Validation Error", !.requests = 0,
                                            !.sent = <<>>]
            /\ UNCHANGED config
       ELSE IF settings.newPassword # <<>> /\ settings.newPassword # settings.confirmPassword
       THEN /\ settings' = [settings EXCEPT !.alert = "Validation Error", !.requests = 0,
                                            !.sent = <<>>]
            /\ UNCHANGED config
       ELSE IF settings.newPassword # <<>> /\ Len(settings.newPassword) < MinPasswordLength
       THEN /\ settings' = [settings EXCEPT !.alert = "Validation Error", !.requests = 0,
                                            !.sent = <<>>]
            /\ UNCHANGED config
       ELSE \/ /\ config' = updates(settings.adminLrn, settings.newPassword) @@ config
               /\ settings' = [settings EXCEPT !.showSettingsModal = FALSE,
                                               !.newPassword = <<>>,
                                               !.confirmPassword = <<>>,
                                               !.alert = "Success", !.requests = 1,
                                               !.sent = updates(settings.adminLrn,
                                                                settings.newPassword)]
            \/ /\ UNCHANGED config
               /\ settings' = [settings EXCEPT !.alert = "Error", !.requests = 1,
                                               !.sent = updates(settings.adminLrn,
                                                                settings.newPassword)]
    /\ UNCHANGED <<voters, candidates, votes, nextVoterId, nextBatch,
                   batchOwner, app, login, ballot, call, admin, gp, dash, super, twin,
                   csv, pager>>

\* the credentials verifyAdminCredentials may be called with
VerifyInputs ==
    { [lrn |-> DEFAULT_ADMIN_LRN, passcode |-> DEFAULT_ADMIN_PASS],
      [lrn |-> <<"a", "d", "m", "2">>, passcode |-> <<"s", "e", "c", "r", "e", "t">>] }

\* verifyAdminCredentials(lrn, passcode) is called
verifyAdminCredentials ==
    /\ settings.verify.pc = "idle"
    /\ \E in \in VerifyInputs :
          settings' = [settings EXCEPT
              !.verify = [pc |-> "admin_lrn", lrn |-> in.lrn, passcode |-> in.passcode,
                          lrnData |-> None,
                          stored |-> "admin_password" \in DOMAIN config]]
    /\ UNCHANGED <<voters, candidates, votes, config, nextVoterId, nextBatch,
                   batchOwner, app, login, ballot, call, admin, gp, dash, super, twin,
                   csv, pager>>

\* const { data: lrnData } = await ... .eq('key', 'admin_lrn').single()
verifyReadLrn ==
    /\ settings.verify.pc = "admin_lrn"
    /\ \E ok \in BOOLEAN :
          settings' = [settings EXCEPT !.verify.pc = "admin_password",
                                       !.verify.lrnData = configData("admin_lrn", ok)]
    /\ UNCHANGED <<voters, candidates, votes, config, nextVoterId, nextBatch,
                   batchOwner, app, login, ballot, call, admin, gp, dash, super, twin,
                   csv, pager>>

\* const { data: passData } = await ... .eq('key', 'admin_password').single();
\* return lrn === correctLrn && passcode === correctPass
verifyReadPassword ==
    /\ settings.verify.pc = "admin_password"
    /\ \E ok \in BOOLEAN :
          LET correctLrn == valueOr(settings.verify.lrnData, DEFAULT_ADMIN_LRN)
              correctPass == valueOr(configData("admin_password", ok), DEFAULT_ADMIN_PASS)
          IN  settings' = [settings EXCEPT
                  !.verify.pc = "idle",
                  !.verified = Some([lrn |-> settings.verify.lrn,
                                     passcode |-> settings.verify.passcode,
                                     stored |-> settings.verify.stored,
                                     result |-> /\ settings.verify.lrn = correctLrn
                                                /\ settings.verify.passcode = correctPass])]
    /\ UNCHANGED <<voters, candidates, votes, config, nextVoterId, nextBatch,
                   batchOwner, app, login, ballot, call, admin, gp, dash, super, twin,
                   csv, pager>>

SettingsInit ==
    /\ voters \in InitVoters
    /\ candidates = InitCandidates
    /\ votes = {}
    /\ config = [k \in {"election_status"} |-> "OPEN"]
    /\ nextVoterId = 2
    /\ nextBatch = 1
    /\ batchOwner = <<>>
    /\ InitSessions
    /\ gp = InitGp

SettingsNext ==
    \/ handleOpenSettings
    \/ setAdminLrn
    \/ setNewPassword
    \/ setConfirmPassword
    \/ handleUpdateSettings
    \/ verifyAdminCredentials
    \/ verifyReadLrn
    \/ verifyReadPassword

SpecSettings == SettingsInit /\ [][SettingsNext]_vars

(***************************************************************************)
(* Two executions side by side: the one of the tables above and its twin,  *)
(* in which every ballot is cast by the voter's counterpart of the same    *)
(* grade level, with the same selections and the same request outcomes.    *)
(***************************************************************************)
AnonPeople ==
    << [lrn |-> <<"1", "2", "3", "4", "5", "6">>, first_name |-> <<"j", "u">>,
        last_name |-> <<"D", "c">>, grade_level |-> 10],
       [lrn |-> <<"2", "2", "3", "4", "5", "6">>, first_name |-> <<"A", "n">>,
        last_name |-> <<"R", "e">>, grade_level |-> 10],
       [lrn |-> <<"6", "5", "4", "3", "2", "1">>, first_name |-> <<"M", "a">>,
        last_name |-> <<"c", "l">>, grade_level |-> 9] >>

AnonVoters == {NewVoter(i, AnonPeople[i]) : i \in 1..Len(AnonPeople)}

\* the relabellings of the voter ids that keep every voter's grade level
Relabellings ==
    { f \in [1..Len(AnonPeople) -> 1..Len(AnonPeople)] :
        /\ \A i, j \in DOMAIN f : f[i] = f[j] => i = j
        /\ \A i \in DOMAIN f : AnonPeople[f[i]].grade_level = AnonPeople[i].grade_level }

VoterById(id) == CHOOSE v \in voters : v.id = id

\* the ballots handleSubmit can send for a voter: a choice for every group
Ballots(voter) ==
    LET grouped == groupedCandidates(loadCandidatesFilter(candidates, voter), voter)
    IN  { sel \in [DOMAIN grouped -> {c.id : c \in candidates} \cup {ABSTAIN}] :
            \A pos \in DOMAIN sel :
                sel[pos] = ABSTAIN \/ \E c \in grouped[pos] : c.id = sel[pos] }

AnonInit ==
    /\ voters = AnonVoters
    /\ candidates = InitCandidates
    /\ votes = {}
    /\ config \in {[k \in {"election_status"} |-> st] : st \in {"OPEN", "CLOSED"}}
                  \cup {[k \in {} |-> "OPEN"]}
    /\ nextVoterId = Len(AnonPeople) + 1
    /\ nextBatch = 1
    /\ batchOwner = <<>>
    /\ app = [s \in Sessions |-> InitApp]
    /\ login = [s \in Sessions |-> InitLogin]
    /\ ballot = [s \in Sessions |-> InitBallot]
    /\ call = [s \in Sessions |-> InitCall]
    /\ admin = [isElectionOpen |-> TRUE]
    /\ dash = InitDash
    /\ super = InitSuper
    /\ \E f \in Relabellings : twin = [InitTwin EXCEPT !.of = f]
    /\ csv = InitCsv
    /\ settings = InitSettings
    /\ pager = InitPager
    /\ gp = InitGp

\* submitBallot(voter, selections) is called: in the twin by the counterpart
submitBallot ==
    /\ twin.pc = "idle"
    /\ \E v \in voters :
          /\ ~v.has_voted
          /\ \E sel \in Ballots(v) :
                twin' = [twin EXCEPT !.pc = "status", !.voter = Some(v.id),
                                     !.selections = sel]
    /\ UNCHANGED <<voters, candidates, votes, config, nextVoterId, nextBatch,
                   batchOwner, app, login, ballot, call, admin, gp, dash, super,
                   csv, settings, pager>>

\* const isOpen = await getElectionStatus(); if (!isOpen) return false
submitBallotStatus ==
    /\ twin.pc = "status"
    /\ \E ok \in BOOLEAN :
          twin' = [twin EXCEPT !.pc = IF getElectionStatus(ok) THEN "insert" ELSE "idle"]
    /\ UNCHANGED <<voters, candidates, votes, config, nextVoterId, nextBatch,
                   batchOwner, app, login, ballot, call, admin, gp, dash, super,
                   csv, settings, pager>>

\* await supabase.from('votes').insert(votesToInsert), in both executions
submitBallotInsert ==
    /\ twin.pc = "insert"
    /\ LET voter == VoterById(twin.voter[1])
           counterpart == VoterById(twin.of[twin.voter[1]])
       IN  \/ /\ nextBatch <= MaxBatches
              /\ votes' = votes \cup Stamped(votesToInsert(voter, twin.selections), nextBatch)
              /\ twin' = [twin EXCEPT
                            !.votes = @ \cup Stamped(votesToInsert(counterpart,
                                                         twin.selections), nextBatch),
                            !.pc = "update"]
              /\ batchOwner' = Append(batchOwner, voter.id)
              /\ nextBatch' = nextBatch + 1
           \/ /\ twin' = [twin EXCEPT !.pc = "idle"]
              /\ UNCHANGED <<votes, batchOwner, nextBatch>>
    /\ UNCHANGED <<voters, candidates, config, nextVoterId, app, login, ballot,
                   call, admin, gp, dash, super,
                   csv, settings, pager>>

\* await supabase.from('voters').update({ has_voted: true }).eq('id', voter.id)
submitBallotUpdate ==
    /\ twin.pc = "update"
    /\ \/ voters' = { IF v.id = twin.voter[1] THEN [v EXCEPT !.has_voted = TRUE] ELSE v :
                        v \in voters }
       \/ UNCHANGED voters
    /\ twin' = [twin EXCEPT !.pc = "idle"]
    /\ UNCHANGED <<candidates, votes, config, nextVoterId, nextBatch, batchOwner,
                   app, login, ballot, call, admin, gp, dash, super,
                   csv, settings, pager>>

AnonNext ==
    \/ submitBallot
    \/ submitBallotStatus
    \/ submitBallotInsert
    \/ submitBallotUpdate

SpecAnon == AnonInit /\ [][AnonNext]_vars

(***************************************************************************)
(* AdminDashboard: the poll and its aggregation (components/AdminDashboard)*)
(***************************************************************************)
POLL_INTERVAL_MS == 5000

GRADE_LEVEL_REP == "Grade Level Rep"

\* vote.grade_level ? vote.grade_level.toString() : 'Unknown'
gradeKey(vote) ==
    IF vote.grade_level # 0 THEN ToString(vote.grade_level) ELSE "Unknown"

countVote_noUnknownBucket(voteMap, vote) ==
    IF vote.candidate_id = NULL THEN voteMap
    ELSE LET id == vote.candidate_id
             entry == IF id \in DOMAIN voteMap THEN voteMap[id]
                      ELSE [total |-> 0, grades |-> <<>>]
             key == ToString(vote.grade_level)
             bucket == IF key \in DOMAIN entry.grades THEN entry.grades[key] ELSE 0
         IN  (id :> [total |-> entry.total + 1,
                     grades |-> IF vote.grade_level = 0 THEN entry.grades
                                ELSE (key :> bucket + 1) @@ entry.grades]) @@ voteMap

\* the body of allVotes.forEach: one vote row added to voteMap
countVote(voteMap, vote) ==
    IF vote.candidate_id = NULL THEN voteMap
    ELSE LET id == vote.candidate_id
             entry == IF id \in DOMAIN voteMap THEN voteMap[id]
                      ELSE [total |-> 0, grades |-> <<>>]
             key == gradeKey(vote)
             bucket == IF key \in DOMAIN entry.grades THEN entry.grades[key] ELSE 0
         IN  (id :> [total |-> entry.total + 1,
                     grades |-> (key :> bucket + 1) @@ entry.grades]) @@ voteMap

\* allVotes.forEach over the fetched rows
RECURSIVE forEachVote(_, _)
forEachVote(allVotes, voteMap) ==
    IF allVotes = {} THEN voteMap
    ELSE LET vote == CHOOSE r \in allVotes : TRUE
         IN  forEachVote(allVotes \ {vote}, countVote(voteMap, vote))

\* the chart point of a candidate: votes: voteMap[c.id]?.total || 0,
\* grades: voteMap[c.id]?.grades || {}
ChartDataPoint(c, voteMap) ==
    [id |-> c.id,
     votes |-> IF c.id \in DOMAIN voteMap THEN voteMap[c.id].total ELSE 0,
     grades |-> IF c.id \in DOMAIN voteMap THEN voteMap[c.id].grades ELSE <<>>]

sortByVotes_unsorted(points) == points

\* .sort((a, b) => b.votes - a.votes): descending, stable
RECURSIVE sortByVotes(_)
sortByVotes(points) ==
    IF points = <<>> THEN <<>>
    ELSE LET n == Len(points)
             sorted == sortByVotes(SubSeq(points, 1, n - 1))
             k == Cardinality({i \in 1..Len(sorted) : sorted[i].votes >= points[n].votes})
         IN  SubSeq(sorted, 1, k) \o <<points[n]>> \o SubSeq(sorted, k + 1, Len(sorted))

RepresentativeKey(g) == "Grade " \o ToString(g) \o " Representative"

\* the grades of the representatives that get a group: grades.forEach skips a
\* missing or zero grade_level
RepGrades(cList) ==
    { cList[i].grade_level[1] : i \in { j \in 1..Len(cList) :
        /\ cList[j].position = GRADE_LEVEL_REP
        /\ cList[j].grade_level # None
        /\ cList[j].grade_level[1] # 0 } }

\* relevantCandidates of a group
relevantCandidates(cList, key) ==
    IF \E i \in 1..Len(POSITIONS_ORDER) : POSITIONS_ORDER[i] = key
    THEN SelectSeq(cList, LAMBDA c : c.position = key)
    ELSE SelectSeq(cList, LAMBDA c :
            /\ c.position = GRADE_LEVEL_REP
            /\ c.grade_level # None
            /\ c.grade_level[1] # 0
            /\ RepresentativeKey(c.grade_level[1]) = key)

\* newData: a list per position of POSITIONS_ORDER that has candidates, the
\* representatives in one list per grade level
newData(cList, voteMap) ==
    LET keys == { POSITIONS_ORDER[i] : i \in { j \in 1..Len(POSITIONS_ORDER) :
                    /\ POSITIONS_ORDER[j] # GRADE_LEVEL_REP
                    /\ \E k \in 1..Len(cList) : cList[k].position = POSITIONS_ORDER[j] } }
                 \cup { RepresentativeKey(g) : g \in RepGrades(cList) }
    IN  [ key \in keys |->
            LET relevant == relevantCandidates(cList, key)
            IN  sortByVotes([i \in 1..Len(relevant) |-> ChartDataPoint(relevant[i], voteMap)]) ]

\* const winners = useMemo(...): the first of every non-empty list of data
winners ==
    { [position |-> pos, candidate |-> dash.data[pos][1]] :
        pos \in { k \in DOMAIN dash.data : Len(dash.data[k]) > 0 } }

\* the orders in which a select without an order clause may return the rows
Orderings(rows) ==
    { seq \in [1..Cardinality(rows) -> rows] :
        \A i, j \in DOMAIN seq : seq[i] = seq[j] => i = j }

NewPoll == [pc |-> "getElectionStatus", cList |-> <<>>, vList |-> {}]

RemoveAt(seq, i) == SubSeq(seq, 1, i - 1) \o SubSeq(seq, i + 1, Len(seq))

\* useEffect at mount: fetchData() and setInterval(fetchData, 5000); fetchData
\* runs up to its first await
useEffectMount ==
    /\ dash = InitDash
    /\ dash' = [dash EXCEPT !.mounted = TRUE,
                            !.interval = Some(POLL_INTERVAL_MS),
                            !.isLoadingData = TRUE,
                            !.polls = Append(@, NewPoll)]
    /\ UNCHANGED <<voters, candidates, votes, config, nextVoterId, nextBatch,
                   batchOwner, app, login, ballot, call, admin, gp, super, twin, csv, settings, pager>>

\* the interval fires: fetchData runs up to its first await
intervalTick ==
    /\ dash.interval # None
    /\ Len(dash.polls) < MaxPolls
    /\ dash' = [dash EXCEPT !.isLoadingData = TRUE, !.polls = Append(@, NewPoll)]
    /\ UNCHANGED <<voters, candidates, votes, config, nextVoterId, nextBatch,
                   batchOwner, app, login, ballot, call, admin, gp, super, twin, csv, settings, pager>>

useEffectCleanup_cancelsPolls ==
    /\ dash.mounted
    /\ dash' = [dash EXCEPT !.mounted = FALSE, !.interval = None, !.polls = <<>>]
    /\ UNCHANGED <<voters, candidates, votes, config, nextVoterId, nextBatch,
                   batchOwner, app, login, ballot, call, admin, gp, super, twin, csv, settings, pager>>

\* the component unmounts: return () => clearInterval(interval)
useEffectCleanup ==
    /\ dash.mounted
    /\ dash' = [dash EXCEPT !.mounted = FALSE, !.interval = None]
    /\ UNCHANGED <<voters, candidates, votes, config, nextVoterId, nextBatch,
                   batchOwner, app, login, ballot, call, admin, gp, super, twin, csv, settings, pager>>

\* const status = await getElectionStatus(); setIsElectionOpen(status)
fetchDataStatus ==
    /\ \E i \in 1..Len(dash.polls) :
          /\ dash.polls[i].pc = "getElectionStatus"
          /\ \E ok \in BOOLEAN :
                admin' = [admin EXCEPT !.isElectionOpen = getElectionStatus(ok)]
          /\ dash' = [dash EXCEPT !.polls[i].pc = "getCandidates",
                                  !.lateUpdate = @ \/ ~dash.mounted]
    /\ UNCHANGED <<voters, candidates, votes, config, nextVoterId, nextBatch,
                   batchOwner, app, login, ballot, call, gp, super, twin, csv, settings, pager>>

\* const cList = await getCandidates()
fetchDataCandidates ==
    /\ \E i \in 1..Len(dash.polls) :
          /\ dash.polls[i].pc = "getCandidates"
          /\ \E ok \in BOOLEAN : \E cList \in Orderings(getCandidates(ok)) :
                dash' = [dash EXCEPT !.polls[i].pc = "getAllVoters",
                                     !.polls[i].cList = cList]
    /\ UNCHANGED <<voters, candidates, votes, config, nextVoterId, nextBatch,
                   batchOwner, app, login, ballot, call, admin, gp, super, twin, csv, settings, pager>>

\* fetchAllRows on a table of fewer rows than one page (a single request): the
\* rows of the table, or none when the request fails
fetchAllRows(table, ok) == IF ok THEN table ELSE {}

\* const vList = await getAllVoters(); setCandidateList(cList); setVoterList(vList)
fetchDataVoters ==
    /\ \E i \in 1..Len(dash.polls) :
          /\ dash.polls[i].pc = "getAllVoters"
          /\ \E ok \in BOOLEAN :
                LET vList == fetchAllRows(voters, ok)
                IN  dash' = [dash EXCEPT !.polls[i].pc = "getAllVotes",
                                         !.polls[i].vList = vList,
                                         !.candidateList = dash.polls[i].cList,
                                         !.voterList = vList,
                                         !.lateUpdate = @ \/ ~dash.mounted]
    /\ UNCHANGED <<voters, candidates, votes, config, nextVoterId, nextBatch,
                   batchOwner, app, login, ballot, call, admin, gp, super, twin, csv, settings, pager>>

\* const allVotes = await getAllVotes(); voteMap, newData; setData(newData);
\* setTurnout(...); finally setIsLoadingData(false)
fetchDataVotes ==
    /\ \E i \in 1..Len(dash.polls) :
          /\ dash.polls[i].pc = "getAllVotes"
          /\ \E ok \in BOOLEAN :
                LET allVotes == fetchAllRows(votes, ok)
                    voteMap == forEachVote(allVotes, <<>>)
                    poll == dash.polls[i]
                IN  dash' = [dash EXCEPT
                        !.polls = RemoveAt(@, i),
                        !.data = newData(poll.cList, voteMap),
                        !.turnout = [voted |-> Cardinality({v \in poll.vList : v.has_voted}),
                                     total |-> Cardinality(poll.vList)],
                        !.isLoadingData = FALSE,
                        !.fetched = [cList |-> poll.cList, allVotes |-> allVotes,
                                     voteMap |-> voteMap],
                        !.lateUpdate = @ \/ ~dash.mounted]
    /\ UNCHANGED <<voters, candidates, votes, config, nextVoterId, nextBatch,
                   batchOwner, app, login, ballot, call, admin, gp, super, twin, csv, settings, pager>>

\* candidates as the candidate form stores them: a representative has a
\* grade level of 1 to 12, the others none
DashCandidates ==
    { [id |-> "c1", position |-> "President", grade_level |-> None],
      [id |-> "c5", position |-> "President", grade_level |-> None],
      [id |-> "c2", position |-> GRADE_LEVEL_REP, grade_level |-> Some(10)] }

DashVoterZ == [WipeVoterZ EXCEPT !.grade_level = parseGradeOrZero(<<"x">>)]

\* ballots cast: by the grade 10 voter, by the voter imported with grade 0 (twice,
\* after a failed has_voted update), an abstention
DashVotes ==
    Stamped(votesToInsert(WipeVoterA,
        ("President" :> "c1") @@ (RepresentativeKey(10) :> "c2")), 1)
    \cup Stamped(votesToInsert(DashVoterZ, ("President" :> "c5")), 2)
    \cup Stamped(votesToInsert(DashVoterZ, ("President" :> "c1")), 3)
    \cup Stamped(votesToInsert(WipeVoterA,
        ("President" :> ABSTAIN) @@ (RepresentativeKey(10) :> ABSTAIN)), 4)

DashTables ==
    { [candidates |-> {c \in DashCandidates : c.position = "President"},
       voters |-> {VotedRow(WipeVoterA), DashVoterZ}, votes |-> DashVotes],
      [candidates |-> {}, voters |-> {WipeVoterA}, votes |-> {}],
      [candidates |-> {c \in DashCandidates : c.id # "c5"}, voters |-> {},
       votes |-> {r \in DashVotes : r.created_at = 1}] }

DashInit ==
    /\ \E tables \in DashTables :
          /\ candidates = tables.candidates
          /\ voters = tables.voters
          /\ votes = tables.votes
    /\ config = [k \in {"election_status"} |-> "CLOSED"]
    /\ nextVoterId = 3
    /\ nextBatch = 5
    /\ batchOwner = <<1, 2, 2, 1>>
    /\ InitSessions
    /\ gp = InitGp

DashNext ==
    \/ useEffectMount
    \/ intervalTick
    \/ useEffectCleanup
    \/ fetchDataStatus
    \/ fetchDataCandidates
    \/ fetchDataVoters
    \/ fetchDataVotes

SpecDashboard == DashInit /\ [][DashNext]_vars

(***************************************************************************)
(* getAllVotes: fetchAllRows request by request, while ballots are cast.   *)
(***************************************************************************)
\* the page size of fetchAllRows (1000 in the source), scaled to the tables of
\* the model
step == 2

\* .order(orderBy, { ascending: false }): the rows by created_at, newest first;
\* rows with the same created_at come in any order
OrderedBy(rows) ==
    { seq \in Orderings(rows) :
        \A i, j \in DOMAIN seq : i < j => seq[i].created_at >= seq[j].created_at }

\* .range(from, to): the rows at the offsets from..to of the ordered rows
range(ordered, from, to) ==
    SubSeq(ordered, from + 1, IF to + 1 < Len(ordered) THEN to + 1 ELSE Len(ordered))

\* getAllVotes() is called: fetchAllRows('votes', 'created_at') up to its first
\* request
getAllVotes ==
    /\ pager = InitPager
    /\ pager' = [pager EXCEPT !.pc = "range"]
    /\ UNCHANGED <<voters, candidates, votes, config, nextVoterId, nextBatch,
                   batchOwner, app, login, ballot, call, admin, gp, dash, super,
                   twin, csv, settings>>

\* one turn of the loop of fetchAllRows: the request for the next page and what
\* follows it up to the next request or the return
fetchAllRowsRange ==
    /\ pager.pc = "range"
    /\ \E ok \in BOOLEAN : \E ordered \in OrderedBy(votes) :
          LET data == range(ordered, pager.from, pager.from + step - 1)
          IN  IF ~ok \/ Len(data) = 0
              THEN pager' = [pager EXCEPT !.pc = "idle", !.result = Some(pager.allRows)]
              ELSE IF Len(data) < step
              THEN pager' = [pager EXCEPT !.pc = "idle",
                                          !.allRows = @ \o data,
                                          !.result = Some(pager.allRows \o data)]
              ELSE pager' = [pager EXCEPT !.allRows = @ \o data,
                                          !.from = @ + step]
    /\ UNCHANGED <<voters, candidates, votes, config, nextVoterId, nextBatch,
                   batchOwner, app, login, ballot, call, admin, gp, dash, super,
                   twin, csv, settings>>

\* the seeded tables, the election open, the dashboard about to read the votes
PagerInit ==
    /\ voters = AnonVoters
    /\ candidates = InitCandidates
    /\ votes = {}
    /\ config = [k \in {"election_status"} |-> "OPEN"]
    /\ nextVoterId = Len(AnonPeople) + 1
    /\ nextBatch = 1
    /\ batchOwner = <<>>
    /\ app = [s \in Sessions |-> InitApp]
    /\ login = [s \in Sessions |-> InitLogin]
    /\ ballot = [s \in Sessions |-> InitBallot]
    /\ call = [s \in Sessions |-> InitCall]
    /\ admin = [isElectionOpen |-> TRUE]
    /\ dash = InitDash
    /\ super = InitSuper
    /\ twin = [InitTwin EXCEPT !.of = [i \in 1..Len(AnonPeople) |-> i]]
    /\ csv = InitCsv
    /\ settings = InitSettings
    /\ pager = InitPager
    /\ gp = InitGp

PagerNext ==
    \/ submitBallot
    \/ submitBallotStatus
    \/ submitBallotInsert
    \/ submitBallotUpdate
    \/ getAllVotes
    \/ fetchAllRowsRange

SpecPager == PagerInit /\ [][PagerNext]_vars

(***************************************************************************)
(* Properties.  The votes table has no voter column: batchOwner records,   *)
(* for each insert, the id of the voter whose session sent it.             *)
(***************************************************************************)
Owner(r) == batchOwner[r.created_at]

LoginSucceeds(s) ==
    /\ app[s].currentScreen = "LOGIN"
    /\ app'[s].currentScreen = "FLASH"
    /\ app'[s].flashMode = "voter"

UpdateFails(s) == call[s].pc = "update" /\ call'[s].outcome = "updateError"

ReturnsTrue(s) == call[s].pc = "update" /\ call'[s].outcome = "ok"

InsertsVotes(s) == call[s].pc = "insert" /\ call'[s].pc = "update"

\* every displayed position has a selection
AllSelected(s) == \A pos \in DOMAIN Grouped(s) : pos \in DOMAIN ballot[s].selections

\* "Review & Submit" is enabled
CanReview(s) ==
    /\ app[s].currentScreen = "BALLOT"
    /\ ~ballot[s].isLoading /\ ~ballot[s].isConfirming
    /\ AllSelected(s)

\* C1: for each voter and each position at most one vote row cast by that voter
\* exists, in every reachable state.
C1_OneVotePerVoterAndPosition ==
    \A r1, r2 \in votes :
        (Owner(r1) = Owner(r2) /\ r1.position = r2.position) => r1 = r2

\* C2: in no reachable state are vote rows of a voter in the votes table while
\* that voter's has_voted flag is false.
C2_HasVotedAtomicWithVotes ==
    \A r \in votes : \A v \in voters : v.id = Owner(r) => v.has_voted

C4_ClosedElectionBlocksVoters ==
    [][("election_status" \in DOMAIN config
          /\ config["election_status"] = "CLOSED"
          /\ config' = config) =>
              /\ votes' \subseteq votes
              /\ \A s \in Sessions : ~LoginSucceeds(s)]_vars

\* the second half of C4 alone: no vote row is inserted while CLOSED
C4_NoInsertWhileClosed ==
    [][("election_status" \in DOMAIN config
          /\ config["election_status"] = "CLOSED"
          /\ config' = config) => votes' \subseteq votes]_vars

\* C2 after the call has returned: vote rows of a voter whose has_voted is false
\* while no submitBallot call of that voter is between its two writes
C2_HasVotedWithVotesWhenIdle ==
    \A r \in votes : \A v \in voters :
        (v.id = Owner(r) /\ \A s \in Sessions : call[s].pc # "update") => v.has_voted

\* the session shows the ballot screen to the voter with this id
ShowsBallotTo(s, id) ==
    /\ app[s].currentScreen = "BALLOT"
    /\ app[s].currentVoter # None
    /\ Voter(s).id = id

\* C6: once a voter's has_voted is true, no login with that voter's LRN
\* succeeds and no session comes to show that voter the ballot screen.
C6_VotedVoterNeverShownBallotAgain ==
    [][\A v \in voters : \A s \in Sessions :
          v.has_voted =>
              /\ ~(LoginSucceeds(s) /\ login[s].lrn = v.lrn)
              /\ ~(~ShowsBallotTo(s, v.id) /\ ShowsBallotTo(s, v.id)')]_vars

\* the first half of C6 alone: no login with the LRN of a voter whose has_voted
\* is true succeeds
C6_VotedVoterLoginRejected ==
    [][\A v \in voters : \A s \in Sessions :
          v.has_voted => ~(LoginSucceeds(s) /\ login[s].lrn = v.lrn)]_vars

C8_SubmitOnlyWhenComplete ==
    \A s \in Sessions :
        (app[s].currentScreen = "BALLOT" /\ ~ballot[s].isLoading /\ ~AllSelected(s)) =>
            /\ ~ballot[s].isConfirming
            /\ ~ballot[s].isSubmitting
            /\ call[s].pc = "idle"

\* C8 witness: one session has selected for some but not all displayed
\* positions, another has its complete ballot in submitBallot.
C8_Witness ==
    \E s, t \in Sessions :
        /\ app[s].currentScreen = "BALLOT" /\ ~ballot[s].isLoading
        /\ ballot[s].selections # <<>>
        /\ ~AllSelected(s)
        /\ call[t].pc = "insert"
        /\ DOMAIN Grouped(t) # {}

\* the ballot of session s displays candidate c
Displayed(s, c) == \E key \in DOMAIN Grouped(s) : c \in Grouped(s)[key]

InPositionsOrder(pos) == \E i \in 1..Len(POSITIONS_ORDER) : POSITIONS_ORDER[i] = pos

EqualIgnoringCase(a, b) ==
    /\ Len(a) = Len(b)
    /\ \A i \in 1..Len(a) : toUpperChar(a[i]) = toUpperChar(b[i])

\* the voters rows with the LRN entered in session s
RecordsEntered(s) == {v \in voters : v.lrn = login[s].lrn}

\* what C5 says handleLogin does with the entered LRN and passcode
ClaimedLoginOutcome(s) ==
    IF RecordsEntered(s) = {} THEN "LRN not found"
    ELSE LET v == CHOOSE r \in RecordsEntered(s) : TRUE
         IN  IF ~ \/ EqualIgnoringCase(login[s].passcode, v.passcode)
                  \/ EqualIgnoringCase(login[s].passcode,
                                       generatePasscode(v.lrn, v.first_name, v.last_name))
             THEN "Invalid passcode"
             ELSE IF v.has_voted THEN "already voted"
             ELSE "ok"

\* handleLogin of a non-admin input finishes in this step
LoginFinishes(s) == login[s].loading /\ ~login'[s].loading

C5_WitnessVoted ==
    \E s \in Sessions : login[s].error = "already voted" /\ ~login[s].readFailed

\* the last n characters of s
LastChars(s, n) == [i \in 1..n |-> s[Len(s) - n + i]]

\* the uppercased first character of name, nothing for an empty name
UpperInitial(name) == IF name = <<>> THEN <<>> ELSE <<toUpperChar(name[1])>>

IsLowercase(c) == \E i \in 1..Len(Lower) : Lower[i] = c /\ Upper[i] # c

\* C11: the passcode generatePasscode returns contains no lowercase letter,
\* for every lrn, firstName and lastName.
C11_PasscodeAllUppercase ==
    gp.result # None => \A i \in 1..Len(gp.result[1]) : ~IsLowercase(gp.result[1][i])

\* handleWipe ends in this step
WipeReturns == super.pc # "idle" /\ super'.pc = "idle"

\* C12: after wipeAllVoters returns without error voters is empty; after
\* wipeAllCandidates returns without error votes and candidates are empty;
\* after factoryResetElection returns all three are empty.
C12_WipesEmptyTheTables ==
    [][WipeReturns =>
          /\ (super.type = "voters" /\ super'.alert # "Error") => voters' = {}
          /\ (super.type = "candidates" /\ super'.alert # "Error") =>
                votes' = {} /\ candidates' = {}
          /\ super.type = "all" => votes' = {} /\ candidates' = {} /\ voters' = {}]_vars

\* C12 with every delete request succeeding: the filters alone
C12_WipesEmptyTheTablesWithoutFailure ==
    [][(WipeReturns /\ ~super'.failed) =>
          /\ super.type = "voters" => voters' = {}
          /\ super.type = "candidates" => votes' = {} /\ candidates' = {}
          /\ super.type = "all" => votes' = {} /\ candidates' = {} /\ voters' = {}]_vars

\* C13: when a delete issued by a wipe has failed, handleWipe shows the error
\* alert and not 'Wiped' or 'Reset'.
C13_WipeFailureIsSurfaced ==
    [][(WipeReturns /\ super'.failed) => super'.alert = "Error"]_vars

\* no two voters share an LRN
UniqueLrn == \A v1, v2 \in voters : v1.lrn = v2.lrn => v1 = v2

\* C16: an import (as every other step on the registry) leaves every existing
\* voter row as it is, has_voted and passcode included, unless the step
\* deletes rows; and no two voters share an LRN.
C16_ImportKeepsExistingVoters ==
    [][/\ voters \subseteq voters' \/ voters' \subseteq voters
       /\ UniqueLrn'
       /\ \A v \in voters' \ voters :
             /\ ~ \E w \in voters : w.lrn = v.lrn
             /\ ~v.has_voted]_vars

\* C16 witness: a voter who has voted and whose stored passcode differs from
\* the formula, next to the voter that the file repeating that LRN added.
C16_Witness ==
    \E v, z \in voters :
        /\ v.lrn = LoginPerson.lrn
        /\ v.has_voted
        /\ v.passcode # generatePasscode(v.lrn, v.first_name, v.last_name)
        /\ z.lrn = LRN_000000

\* C17: has_voted of an existing voter record changes only from false to true,
\* and only in the step in which a submitBallot for that voter succeeds.
C17_HasVotedOnlySetBySubmitBallot ==
    [][\A v \in voters : \A w \in voters' :
          (v.id = w.id /\ v.has_voted # w.has_voted) =>
              /\ ~v.has_voted /\ w.has_voted
              /\ \E s \in Sessions :
                    /\ ReturnsTrue(s)
                    /\ app[s].currentVoter # None
                    /\ Voter(s).id = v.id]_vars

\* C17 witness: after a CSV import that repeats the LRN of a voter who has
\* voted, that voter's flag is true and the file's other voter is registered.
C17_Witness ==
    /\ nextVoterId > 3
    /\ \E v, z \in voters : v.has_voted /\ z.lrn = LRN_000000 /\ ~z.has_voted
    /\ votes # {}

\* C19: every step leaves the votes table as it is, or only adds rows and is
\* the insert of a submitBallot, or only removes rows and is the votes delete of
\* wipeAllCandidates or factoryResetElection.
C19_VotesAreWriteOnce ==
    [][\/ votes' = votes
       \/ /\ votes \subseteq votes'
          /\ \E s \in Sessions : InsertsVotes(s) /\ votes' \ votes = call'[s].rows
       \/ /\ votes' \subseteq votes
          /\ super.pc \in {"wipeAllCandidates.votes", "factoryReset.votes"}]_vars

\* C19 witness: rows were inserted and wipeAllCandidates has deleted them.
C19_Witness ==
    /\ nextBatch > 1
    /\ votes = {}
    /\ super.pc = "idle" /\ super.type = "candidates" /\ super.alert = "Wiped"
    /\ ~super.failed

\* C18: the votes table tells nothing about who cast a ballot beyond the grade
\* level: a row holds position, candidate_id and grade_level (and the
\* created_at the backend stamps), and the execution in which every ballot
\* was cast by the voter's same-grade counterpart has the same votes table.
C18_VotesTableHidesTheVoter ==
    /\ twin.votes = votes
    /\ \A r \in votes :
          DOMAIN r = {"created_at", "position", "candidate_id", "grade_level"}

\* rows are in both tables, cast by different voters in the two executions
C18_Witness ==
    /\ twin.pc = "idle"
    /\ votes # {}
    /\ \E i \in DOMAIN batchOwner : twin.of[batchOwner[i]] # batchOwner[i]
    /\ \E v \in voters : v.has_voted

RECURSIVE SumOf(_)
SumOf(f) ==
    IF DOMAIN f = {} THEN 0
    ELSE LET k == CHOOSE x \in DOMAIN f : TRUE
         IN  f[k] + SumOf([x \in DOMAIN f \ {k} |-> f[x]])

\* the fetched vote rows of a candidate
RowsFor(id) == {r \in dash.fetched.allVotes : r.candidate_id = id}

\* C14: after every fetchData aggregation, for each candidate the per-grade
\* buckets (with 'Unknown' for a zero grade_level) add up to the candidate's
\* total, the total is the number of fetched vote rows with the candidate's
\* id, and abstain rows (candidate_id null) are counted for no candidate.
C14_BucketsAddUpToFetchedRows ==
    LET voteMap == dash.fetched.voteMap
    IN  /\ NULL \notin DOMAIN voteMap
        /\ DOMAIN voteMap = {r.candidate_id : r \in dash.fetched.allVotes} \ {NULL}
        /\ \A id \in DOMAIN voteMap :
              /\ SumOf(voteMap[id].grades) = voteMap[id].total
              /\ voteMap[id].total = Cardinality(RowsFor(id))
              /\ LET unknown == {r \in RowsFor(id) : r.grade_level = 0}
                 IN  IF unknown = {} THEN "Unknown" \notin DOMAIN voteMap[id].grades
                     ELSE /\ "Unknown" \in DOMAIN voteMap[id].grades
                          /\ voteMap[id].grades["Unknown"] = Cardinality(unknown)
        /\ \A k \in DOMAIN dash.data : \A i \in 1..Len(dash.data[k]) :
              LET point == dash.data[k][i]
              IN  /\ point.votes = Cardinality(RowsFor(point.id))
                  /\ SumOf(point.grades) = point.votes

\* an aggregation over rows with an abstention and a candidate with votes of a
\* numbered grade and of grade 0
C14_Witness ==
    /\ \E r \in dash.fetched.allVotes : r.candidate_id = NULL
    /\ \E k \in DOMAIN dash.data : \E i \in 1..Len(dash.data[k]) :
          /\ dash.data[k][i].votes = 2
          /\ DOMAIN dash.data[k][i].grades = {"10", "Unknown"}

\* the candidates of the fetched list that belong to a group
GroupMembers(key) ==
    LET relevant == relevantCandidates(dash.fetched.cList, key)
    IN  {relevant[i].id : i \in 1..Len(relevant)}

Fetched(c) == \E i \in 1..Len(dash.fetched.cList) : dash.fetched.cList[i] = c

\* C15: in every group of the dashboard data the reported winner is the first
\* of the list, the list is in descending order of votes, so no candidate of
\* the group has more votes than the winner; and a group has a winner entry
\* exactly if the fetched candidates hold one of its position (for the
\* representatives: of its grade level).
C15_WinnerIsFirstOfSortedGroup ==
    /\ {w.position : w \in winners} = DOMAIN dash.data
    /\ \A w \in winners :
          LET list == dash.data[w.position]
          IN  /\ w.candidate = list[1]
              /\ \A i, j \in 1..Len(list) : i < j => list[i].votes >= list[j].votes
              /\ {list[i].id : i \in 1..Len(list)} = GroupMembers(w.position)
              /\ \A id \in GroupMembers(w.position) :
                    Cardinality(RowsFor(id)) <= Cardinality(RowsFor(w.candidate.id))
              /\ \A v \in winners : v.position = w.position => v = w
    /\ \A i \in 1..Len(POSITIONS_ORDER) :
          POSITIONS_ORDER[i] # GRADE_LEVEL_REP =>
              ((\E w \in winners : w.position = POSITIONS_ORDER[i])
                  <=> \E c \in candidates \cup DashCandidates :
                          Fetched(c) /\ c.position = POSITIONS_ORDER[i])
    /\ \A g \in 1..12 :
          (\E w \in winners : w.position = RepresentativeKey(g))
              <=> \E c \in candidates \cup DashCandidates :
                      Fetched(c) /\ c.position = GRADE_LEVEL_REP /\ c.grade_level = Some(g)
    /\ \A c \in candidates \cup DashCandidates :
          Fetched(c) => \E k \in DOMAIN dash.data : c.id \in GroupMembers(k)

\* the backend returned the candidate with fewer votes first and the sort put
\* the other one first
C15_Witness ==
    \E w \in winners :
        /\ Len(dash.data[w.position]) = 2
        /\ w.candidate.votes > dash.data[w.position][2].votes
        /\ dash.fetched.cList[1].id = dash.data[w.position][2].id

\* C20: the dashboard starts a poll at mount and sets the 5 s interval; a poll
\* starts only at mount or when the interval fires, so none starts after the
\* unmount; the unmount clears the interval and leaves the polls in flight
\* alone, and a poll leaves only by finishing, applying its updates.
C20_PollsStartWhileMountedAndFinishAnyway ==
    [][ /\ (~dash.mounted /\ dash'.mounted) =>
              /\ dash'.interval = Some(POLL_INTERVAL_MS)
              /\ dash'.polls = Append(dash.polls, NewPoll)
        /\ Len(dash'.polls) > Len(dash.polls) =>
              /\ dash'.mounted
              /\ dash'.interval = Some(POLL_INTERVAL_MS)
              /\ dash'.polls = Append(dash.polls, NewPoll)
        /\ (dash.mounted /\ ~dash'.mounted) =>
              /\ dash'.interval = None
              /\ dash'.polls = dash.polls
        /\ (~dash'.mounted) => dash'.interval = None
        /\ Len(dash'.polls) < Len(dash.polls) =>
              \E i \in 1..Len(dash.polls) :
                  /\ dash.polls[i].pc = "getAllVotes"
                  /\ dash'.polls = RemoveAt(dash.polls, i)
                  /\ dash'.fetched.cList = dash.polls[i].cList
                  /\ dash'.data = newData(dash.polls[i].cList, dash'.fetched.voteMap)
                  /\ ~dash'.isLoadingData
      ]_vars

\* unmounted, and a poll that was in flight has set the data since
C20_Witness ==
    /\ ~dash.mounted
    /\ dash.interval = None
    /\ dash.lateUpdate
    /\ dash.polls = <<>>
    /\ dash.data # <<>>

\* the positions of character c in s
Positions(s, c) == {i \in 1..Len(s) : s[i] = c}

\* the k-th of the pieces the occurrences of c cut s into
Piece(s, c, k) ==
    LET P == Positions(s, c)
        nth(n) == CHOOSE p \in P : Cardinality({q \in P : q <= p}) = n
        first == IF k = 1 THEN 1 ELSE nth(k - 1) + 1
        last == IF k = Cardinality(P) + 1 THEN Len(s) ELSE nth(k) - 1
    IN  SubSeq(s, first, last)

\* s without the white space at its ends
Trimmed(s) ==
    LET solid == {i \in 1..Len(s) : ~IsWhitespace(s[i])}
    IN  IF solid = {} THEN <<>>
        ELSE SubSeq(s, CHOOSE i \in solid : \A j \in solid : i <= j,
                       CHOOSE i \in solid : \A j \in solid : j <= i)

\* a line qualifies: not blank, four fields or more
Qualifies(line) ==
    Trimmed(line) # <<>> /\ Cardinality(Positions(line, COMMA)) >= 3

\* one voter per qualifying line after line 1, in the order of the file
ExpectedImport(text) ==
    LET n == Cardinality(Positions(text, LF)) + 1
        lines == [k \in 1..(n - 1) |-> Piece(text, LF, k + 1)]
        good == SelectSeq(lines, Qualifies)
    IN  [i \in 1..Len(good) |->
            [lrn |-> Trimmed(Piece(good[i], COMMA, 1)),
             first_name |-> Trimmed(Piece(good[i], COMMA, 2)),
             last_name |-> Trimmed(Piece(good[i], COMMA, 3)),
             grade_level |-> Trimmed(Piece(good[i], COMMA, 4))]]

\* C21: handleFileImport ignores line 1, skips blank lines and lines of fewer
\* than four fields, makes one voter object of the trimmed first four fields
\* of every other line; when no line qualifies bulkImportVoters is not called
\* and the voters table is unchanged.
C21_ImportParsesQualifyingLines ==
    [][ csv' # csv =>
          /\ csv'.votersToImport = ExpectedImport(csv'.text)
          /\ csv'.called <=> ExpectedImport(csv'.text) # <<>>
          /\ ~csv'.called => voters' = voters
          /\ (csv'.called /\ csv'.alert = "Import Complete") =>
                /\ voters \subseteq voters'
                /\ \A i \in 1..Len(csv'.votersToImport) :
                      \E v \in voters' : v.lrn = csv'.votersToImport[i].lrn
      ]_vars

\* a file with a padded line and a line of three fields was imported
C21_Witness ==
    /\ csv.alert = "Import Complete"
    /\ Len(csv.votersToImport) = 1
    /\ Cardinality(Positions(csv.text, LF)) = 2
    /\ Cardinality(Positions(csv.text, " ")) > 0
    /\ \E v \in voters : v.lrn = <<"3", "4">> /\ v.first_name = <<"c">>

\* the fields of the settings modal do not pass the validations
SettingsInvalid ==
    \/ settings.adminLrn = <<>>
    \/ /\ settings.newPassword # <<>>
       /\ \/ settings.newPassword # settings.confirmPassword
          \/ Len(settings.newPassword) < 6

\* the step in which handleUpdateSettings succeeds: the modal closes
SettingsSaved == settings.showSettingsModal /\ ~settings'.showSettingsModal

\* C22: a blank new-password field keeps the admin password: handleUpdateSettings
\* with an empty password changes only the admin_lrn value; with an empty
\* LRN, a confirmation that does not match or a password of fewer than 6
\* characters it makes no backend request and changes no config value.
C22_BlankPasswordKeepsPassword ==
    [][ /\ (SettingsSaved /\ settings.newPassword = <<>>) =>
              /\ DOMAIN config' = DOMAIN config \cup {"admin_lrn"}
              /\ config'["admin_lrn"] = settings.adminLrn
              /\ \A k \in DOMAIN config : k # "admin_lrn" => config'[k] = config[k]
              /\ DOMAIN settings'.sent = {"admin_lrn"}
        /\ (config' # config /\ settings.newPassword = <<>>) =>
              /\ "admin_password" \in DOMAIN config' <=> "admin_password" \in DOMAIN config
              /\ "admin_password" \in DOMAIN config =>
                    config'["admin_password"] = config["admin_password"]
        /\ SettingsInvalid =>
              /\ config' = config
              /\ ~SettingsSaved
              /\ settings'.alert \in {settings.alert, "Validation Error"}
              /\ settings'.requests \in {settings.requests, 0}
              /\ settings'.alert # settings.alert => settings'.requests = 0
      ]_vars

\* a password is stored, and the last update sent the LRN alone and succeeded
C22_Witness ==
    /\ "admin_password" \in DOMAIN config
    /\ settings.alert = "Success"
    /\ DOMAIN settings.sent = {"admin_lrn"}
    /\ config["admin_lrn"] = settings.sent["admin_lrn"]

\* C28: once an admin password is stored, verifyAdminCredentials returns false
\* for the default LRN and password, whether its reads succeed or fail.
C28_DefaultPairRejectedAfterChange ==
    \A v \in {settings.verified[i] : i \in DOMAIN settings.verified} :
        (v.stored /\ v.lrn = DEFAULT_ADMIN_LRN /\ v.passcode = DEFAULT_ADMIN_PASS)
            => ~v.result

\* C23: wipeAllVoters changes only the voters table; wipeAllCandidates changes
\* only the votes and candidates tables, so that the voters table with every
\* has_voted flag stays as it is; neither changes config.
C23_WipesChangeOnlyTheirTables ==
    [][ /\ (super.type = "voters" \/ super'.type = "voters") =>
              /\ candidates' = candidates
              /\ votes' = votes
              /\ config' = config
        /\ (super.type = "candidates" \/ super'.type = "candidates") =>
              /\ voters' = voters
              /\ config' = config
      ]_vars

\* wipeAllCandidates has emptied votes and candidates; a voter is still marked
\* as having voted
C23_Witness ==
    /\ super.pc = "idle"
    /\ super.type = "candidates"
    /\ super.alert = "Wiped"
    /\ votes = {}
    /\ candidates = {}
    /\ \E v \in voters : v.has_voted

\* the election_status row is there and its value is not 'OPEN'
StoredNotOpen ==
    "election_status" \in DOMAIN config /\ config["election_status"] # "OPEN"

C25_MarkedVotedOnlyWithRows ==
    [][\A s \in Sessions :
          /\ ReturnsTrue(s) => call[s].rows # {}
          /\ (call[s].pc = "idle" /\ call'[s].pc # "idle") => DOMAIN Grouped(s) # {}
      ]_vars

\* submitBallot of session s is running
InFlight(s) == call[s].pc # "idle"

\* C27: within one ballot session at most one submitBallot call is in flight:
\* a call starts only from the confirmation modal with isSubmitting false and no
\* call running, isSubmitting is true as long as the call runs, it goes back to
\* false on the ballot only in the step where the call returns false, and the
\* call that returns true leaves the session on SUCCESS, where no call starts.
C27_OneSubmitInFlight ==
    /\ [](\A s \in Sessions :
            InFlight(s) => ballot[s].isSubmitting /\ app[s].currentScreen = "BALLOT")
    /\ [][\A s \in Sessions :
            /\ (call'[s].pc = "status" /\ call'[s] # call[s]) =>
                   ~InFlight(s) /\ ~ballot[s].isSubmitting /\ ballot'[s].isSubmitting
            /\ (ballot[s].isSubmitting /\ ~ballot'[s].isSubmitting) =>
                   /\ InFlight(s) /\ ~InFlight(s)'
                   /\ \/ /\ call'[s].outcome \in {"closed", "insertError", "updateError"}
                         /\ app'[s].currentScreen = "BALLOT"
                      \/ /\ call'[s].outcome = "ok"
                         /\ app'[s].currentScreen = "SUCCESS"
            /\ app[s].currentScreen = "SUCCESS" => ~InFlight(s)'
          ]_vars

\* a second call of the same ballot session is running: rows of an earlier call
\* of this voter are in the table (that call returned false after its insert)
C27_Witness ==
    \E s \in Sessions :
        /\ InFlight(s)
        /\ call[s].pc = "insert"
        /\ ballot[s].isSubmitting
        /\ \E r \in votes : Owner(r) = Voter(s).id

\* C26: getAllVotes returns each vote row at most once, also when rows are
\* inserted between its page requests.
C26_EachVoteRowOnce ==
    pager.result # None =>
        \A i, j \in DOMAIN pager.result[1] :
            pager.result[1][i] = pager.result[1][j] => i = j

====
